---- MODULE Spec2Model ----
(***************************************************************************)
(* Trip-Scraper: the session bootstrap and the staged request              *)
(* orchestration of the initial-search handlers of src/dump/dump.ts        *)
(*   app.post('/api/flight-search')       (CycleTLS session, sequential)   *)
(*   app.post('/api/flight-search-grpc')  (gRPC session, concurrent)       *)
(* and the sort/refine handler                                             *)
(*   app.post('/api/flight-search-sort')  (root GET, then one search call) *)
(* One behaviour of Spec is one scrape operation: every await of the       *)
(* handler is a point where the transport may settle a call, and each      *)
(* action is the synchronous code the handler runs between two awaits.     *)
(*                                                                         *)
(* Spec leaves out the contents of cookies and payloads (BuildSpec and     *)
(* CookieSpec model them), console logging other than the recordCount      *)
(* warning, and the file writes (response-root.html, cookie.txt), which    *)
(* are taken to succeed (PairSpec models where they land). A body          *)
(* is the text after decodeBody; a body that fails to decompress behaves   *)
(* like one that fails to parse (both land in the same catch).             *)
(* session.get / session.post always return a promise that the transport   *)
(* settles later; the signing oracles may return, return '' or throw.      *)
(***************************************************************************)
EXTENDS Integers, Sequences, FiniteSets, TLC

VARIABLES
  handler,              \* which handler serves the request
  req,                  \* the request body: its url field
  pc,                   \* position of the handler (the await it is suspended on)
  call,                 \* per orchestrated call: idle / inflight / ok / fail
  netIssued,            \* per call: how many times it was put on the transport
  err,                  \* per call: error.message of its rejection
  oracle,               \* outcome of each signing oracle for the main search
  flightSearchToken,    \* the handler's flightSearchToken local
  wPayloadSource,       \* the handler's wPayloadSource local
  searchHeaders,        \* headers of the main search request, once built
  searchResp,           \* the response the main search call resolved with
  results,              \* the `results` array built after the Stage C join
  flightSearchResponse, \* the handler's flightSearchResponse local
  blockedWarned,        \* the recordCount === 1 warning has been logged
  res                   \* the HTTP responses sent to the caller, in order

vars == <<handler, req, pc, call, netIssued, err, oracle, flightSearchToken,
          wPayloadSource, searchHeaders, searchResp, results,
          flightSearchResponse, blockedWarned, res>>

\* Two concurrent operations (PairSpec)
VARIABLES
  opPc,       \* per operation: the await it is suspended on
  opSearch,   \* per operation: outcome of its main search call
  store,      \* per location: the operation whose write it holds (0: none)
  wrote       \* per operation: the locations it has written

pairVars == <<opPc, opSearch, store, wrote>>

\* The payload builders, called in the handler's order (BuildSpec)
VARIABLES
  bStep,             \* the builder the handler calls next
  params,            \* parsed.params (FlightSearchParams)
  productId,         \* the productId argument ('' when the caller passes none)
  cookies,           \* the cookie record given to the builders (finalCookies)
  jar,               \* the cookie jar of the session
  fltBatchId,        \* the handler's fltBatchId
  tokenPayload,      \* result of buildTokenPayload
  payload,           \* result of buildFlightSearchPayload
  wPayload,          \* result of buildWPayloadSourcePayload
  routeInfoPayload,  \* the payload built in callGetRouteInfo
  ubt,               \* buildUbtPayload: its locals and the ubtList built so far
  sortBody           \* the sortType and direction fields of req.body

buildVars == <<bStep, params, productId, cookies, jar, fltBatchId,
               tokenPayload, payload, wPayload, routeInfoPayload, ubt,
               sortBody>>

\* The cookie writes of the bootstrap, in the handler's order (CookieSpec)
VARIABLES
  kStep,           \* the cookie write the handler performs next
  rootReceived,    \* the _combined cookie set by the root GET response
  targetReceived,  \* the _combined cookie set by the target URL GET response
  finalCookies,    \* rootCookies / finalCookies (one object under two names)
  cookieJar,       \* the session's cookie jar (session.setCookie)
  rootIdentity,    \* the GUID and UBT_VID cookies set by the root GET response
  clientIdResponse, \* what the client-id issuance call settled with
  collectResp      \* what the anti-fingerprint registration call settled with

cookieVars == <<kStep, rootReceived, targetReceived, finalCookies, cookieJar,
                rootIdentity, clientIdResponse, collectResp>>

\* encodePayload of src/src/utils/collectPayload.js (CodecSpec)
VARIABLES
  cStep,  \* position inside encodePayload
  text,   \* the argument: a string, as the sequence of its code points
  enc,    \* the locals of the inner function: i, n, r, s, o, a, l, c, d, u
  returned  \* the calls that have returned: argument and result of each

codecVars == <<cStep, text, enc, returned>>

\* parseTripUrl (ParseSpec)
VARIABLES
  urlString,  \* the argument, as new URL() reads it: hostname and query
  parsed      \* the ParsedUrlData returned

parseVars == <<urlString, parsed>>

\* the variables of the parts of the model other than the scrape operation
auxVars == <<pairVars, buildVars, cookieVars, codecVars, parseVars>>

\* the variables of the parts other than the two concurrent operations
notPair == <<vars, buildVars, cookieVars, codecVars, parseVars>>

\* the variables of the parts other than the payload builders
notBuild == <<vars, pairVars, cookieVars, codecVars, parseVars>>

\* the variables of the parts other than the bootstrap's cookie writes
notCookie == <<vars, pairVars, buildVars, codecVars, parseVars>>

\* the variables of the parts other than encodePayload
notCodec == <<vars, pairVars, buildVars, cookieVars, parseVars>>

\* the variables of the parts other than parseTripUrl
notParse == <<vars, pairVars, buildVars, cookieVars, codecVars>>

allVars == <<vars, auxVars>>

\* Each specification runs one part of the model; the variables of the
\* other parts then stay at these values
IdleOperation ==
  /\ handler = "none" /\ req = "none" /\ pc = "none"
  /\ call = <<>> /\ netIssued = <<>> /\ err = <<>> /\ oracle = <<>>
  /\ flightSearchToken = "" /\ wPayloadSource = "" /\ searchHeaders = <<>>
  /\ searchResp = <<>> /\ results = <<>> /\ flightSearchResponse = <<>>
  /\ blockedWarned = FALSE /\ res = <<>>

IdlePair ==
  /\ opPc = <<>> /\ opSearch = <<>> /\ store = <<>> /\ wrote = <<>>

IdleBuild ==
  /\ bStep = "none" /\ params = <<>> /\ productId = "" /\ cookies = <<>>
  /\ jar = <<>> /\ fltBatchId = "" /\ tokenPayload = <<>> /\ payload = <<>>
  /\ wPayload = <<>> /\ routeInfoPayload = <<>> /\ ubt = <<>>
  /\ sortBody = <<>>

IdleCookie ==
  /\ kStep = "none" /\ rootReceived = <<>> /\ targetReceived = <<>>
  /\ finalCookies = <<>> /\ cookieJar = <<>>
  /\ rootIdentity = <<>> /\ clientIdResponse = <<>> /\ collectResp = <<>>

IdleCodec ==
  /\ cStep = "none" /\ text = <<>> /\ enc = <<>> /\ returned = <<>>

IdleParse ==
  /\ urlString = <<>> /\ parsed = <<>>

\* every part but the scrape operation is idle
IdleAux == IdlePair /\ IdleBuild /\ IdleCookie /\ IdleCodec /\ IdleParse

\* every part but the two concurrent operations is idle
IdleNotPair ==
  IdleOperation /\ IdleBuild /\ IdleCookie /\ IdleCodec /\ IdleParse

\* every part but the payload builders is idle
IdleNotBuild ==
  IdleOperation /\ IdlePair /\ IdleCookie /\ IdleCodec /\ IdleParse

\* every part but the bootstrap's cookie writes is idle
IdleNotCookie ==
  IdleOperation /\ IdlePair /\ IdleBuild /\ IdleCodec /\ IdleParse

\* every part but encodePayload is idle
IdleNotCodec ==
  IdleOperation /\ IdlePair /\ IdleBuild /\ IdleCookie /\ IdleParse

\* every part but parseTripUrl is idle
IdleNotParse ==
  IdleOperation /\ IdlePair /\ IdleBuild /\ IdleCookie /\ IdleCodec

----------------------------------------------------------------------------
(* Values *)

Handlers == {"cycletls", "grpc", "sort"}

\* the handlers of the initial search
InitialHandlers == {"cycletls", "grpc"}

\* req.body: url present and parsable, url missing, url rejected by
\* new URL(), or (sort/refine only, the initial search has no such field)
\* url parsable and productId missing
Requests == {"ok", "nourl", "badurl", "nopid"}

StageA == <<"getAppConfig", "getHeaderInfo", "saveLogInfo", "getRouteInfo1">>

StageASet == {StageA[i] : i \in 1..Len(StageA)}

StageCSet == {"ubtCollect", "flightSearch"}

Calls == {"rootGet", "createClientId", "targetGet"} \cup StageASet
           \cup {"getRouteInfo2"} \cup StageCSet \cup {"fingerprint", "risk"}
           \cup {"sortSearch"}

Settled == {"ok", "fail"}

\* error.message of a rejected transport call: a description, or empty
ErrDescs == {"ECONNRESET", ""}

\* the calls whose rejection reason reaches the results array or the response
\* (the reason of every other call is only logged)
ErrReported == {"rootGet", "targetGet", "ubtCollect", "flightSearch",
                "sortSearch"}

\* outcomes of an opaque signing oracle: a signature, an empty string, a throw
OracleOutcomes == {"sig", "empty", "throw"}

\* A JSON document as the decoder sees it: valid = JSON.parse accepts it,
\* rc = basicInfo.recordCount (0: absent or zero, both falsy),
\* pid = basicInfo.productId ("" : absent or empty, both falsy)
Doc(v, r, p) == [valid |-> v, rc |-> r, pid |-> p]

BadDoc == Doc(FALSE, 0, "")

\* One line of a response body: a `data:`-prefixed event-stream line carrying
\* a document, or a bare line that is the document itself
Line(d, doc) == [isData |-> d, doc |-> doc]

\* Sample main-search bodies (sequences of lines) covering the decoder's cases
SearchBodies ==
  { <<>>,
    << Line(TRUE,  Doc(TRUE, 1, "")) >>,
    << Line(TRUE,  Doc(TRUE, 7, "P1")) >>,
    << Line(FALSE, Doc(TRUE, 7, "P1")) >>,
    << Line(FALSE, Doc(TRUE, 0, "")) >>,
    << Line(FALSE, BadDoc) >>,
    << Line(TRUE,  BadDoc) >>,
    << Line(TRUE,  Doc(TRUE, 7, "P1")), Line(TRUE, Doc(TRUE, 1, "")) >> }

\* Sample resolved main-search responses: every sample body with status 200,
\* and a refusal (status 403) with an empty, an unparsable and a parsable body
SearchResponses ==
  {[statusCode |-> 200, body |-> b] : b \in SearchBodies}
    \cup {[statusCode |-> 403, body |-> b] :
            b \in {<<>>, << Line(FALSE, BadDoc) >>,
                   << Line(TRUE, Doc(TRUE, 1, "")) >>}}

NoResp == [statusCode |-> 0, body |-> <<>>]

NoData == [kind |-> "none", doc |-> BadDoc, raw |-> <<>>]

----------------------------------------------------------------------------
(* Pure helpers of the handlers *)

SetMin(S) == CHOOSE x \in S : \A y \in S : x <= y

SetMax(S) == CHOOSE x \in S : \A y \in S : x >= y

\* `error.message || 'Internal server error'` of the handlers' catch block;
\* a message is a sequence of text fragments, <<>> the empty message
ErrorMessage(m) == IF m = <<>> THEN <<"Internal server error">> ELSE m

\* message of a rejected transport call with description d
TransportMessage(d) == IF d = "" THEN <<>> ELSE <<d>>

\* a message names a step when the step's name is one of its fragments
Names(m, step) == \E i \in 1..Len(m) : m[i] = step

\* res.status(400).json({error: 'Missing required field: url'})
BadRequest ==
  [http |-> 400, success |-> "absent", statusCode |-> 0, data |-> NoData,
   productId |-> "", error |-> <<"Missing required field: url">>]

\* res.status(400).json({error: 'Missing required field: productId ...'})
BadRequestProductId ==
  [http |-> 400, success |-> "absent", statusCode |-> 0, data |-> NoData,
   productId |-> "", error |-> <<"Missing required field: productId">>]

\* res.status(500).json({success: false, error: error.message || ...})
FailureResult(m) ==
  [http |-> 500, success |-> "false", statusCode |-> 0, data |-> NoData,
   productId |-> "", error |-> ErrorMessage(m)]

\* variant: a status code other than 200 is reported as a failure
SuccessResult_Mut(resp, doc) ==
  [http |-> 200,
   success |-> IF resp.statusCode = 200 THEN "true" ELSE "false",
   statusCode |-> resp.statusCode,
   data |-> IF doc.valid THEN [kind |-> "json", doc |-> doc, raw |-> <<>>]
            ELSE [kind |-> "raw", doc |-> BadDoc, raw |-> resp.body],
   productId |-> IF doc.valid THEN doc.pid ELSE "",
   error |-> <<>>]

\* res.json({success: true, statusCode, data: flightData, productId, ...}):
\* flightData is the parsed document, or the raw body when parsing threw
SuccessResult(resp, doc) ==
  [http |-> 200, success |-> "true", statusCode |-> resp.statusCode,
   data |-> IF doc.valid THEN [kind |-> "json", doc |-> doc, raw |-> <<>>]
            ELSE [kind |-> "raw", doc |-> BadDoc, raw |-> resp.body],
   productId |-> IF doc.valid THEN doc.pid ELSE "",
   error |-> <<>>]

\* the productId of a sort/refine request that carries one
RequestProductId == "P0"

\* JSON.parse(searchResponse.body) of the sort/refine handler: the whole body,
\* which parses only when it is a single document without framing
SortDecode(body) ==
  IF Len(body) = 1 /\ ~body[1].isData THEN body[1].doc ELSE BadDoc

\* res.json({success: true, statusCode, data, productId, sortType, direction,
\* ...}) of the sort/refine handler; a request without a sort spec has the
\* destructuring defaults sortType = 'Price', direction = true
SortResult(resp, doc) ==
  [http |-> 200, success |-> "true", statusCode |-> resp.statusCode,
   data |-> IF doc.valid THEN [kind |-> "json", doc |-> doc, raw |-> <<>>]
            ELSE [kind |-> "raw", doc |-> BadDoc, raw |-> resp.body],
   productId |-> RequestProductId, error |-> <<>>,
   sortType |-> "Price", direction |-> TRUE]

\* variant: the first `data:` line in both initial-search handlers
DecodeSearchBody_Mut(h, body) ==
  LET dataLines == {i \in 1..Len(body) : body[i].isData}
  IN  IF dataLines # {}
      THEN body[SetMin(dataLines)].doc
      ELSE IF Len(body) = 1 THEN body[1].doc ELSE BadDoc

\* The document JSON.parse is given: with event-stream framing the payload of
\* one `data:` line (the first for CycleTLS, the last for gRPC), otherwise the
\* whole body, which parses only when it is a single document
DecodeSearchBody(h, body) ==
  LET dataLines == {i \in 1..Len(body) : body[i].isData}
  IN  IF dataLines # {}
      THEN body[IF h = "cycletls" THEN SetMin(dataLines)
                ELSE SetMax(dataLines)].doc
      ELSE IF Len(body) = 1 THEN body[1].doc ELSE BadDoc

\* the endpointNames array the Stage C outcomes are labelled from
endpointNames(h) ==
  IF h = "cycletls" THEN <<"UBT collect", "clog", "FlightListSearchSSE">>
  ELSE <<"UBT collect", "FlightListSearchSSE">>

\* the members of the Stage C fan-out, in the order of the allSettled array
concurrentCalls == <<"ubtCollect", "flightSearch">>

\* String(result.reason?.message || result.reason || 'Unknown error')
ReasonText(d) == IF d = "" THEN "Error" ELSE d

\* variant: only the fulfilled members are recorded
BuildResults_Mut(h, st, er) ==
  LET ok == {i \in 1..Len(concurrentCalls) : st[concurrentCalls[i]] = "ok"}
  IN  [k \in 1..Cardinality(ok) |->
         [name    |-> endpointNames(h)[SetMin(ok) + k - 1],
          success |-> TRUE,
          error   |-> ""]]

\* the results array: one entry per settled member of concurrentCalls
BuildResults(h, st, er) ==
  [i \in 1..Len(concurrentCalls) |->
     [name    |-> endpointNames(h)[i],
      success |-> st[concurrentCalls[i]] = "ok",
      error   |-> IF st[concurrentCalls[i]] = "ok" THEN ""
                  ELSE ReasonText(er[concurrentCalls[i]])]]

\* variant: the response is kept only when every member of the fan-out
\* fulfilled (a fail-fast join)
FulfilledSearch_Mut(st, resp) ==
  IF \A c \in StageCSet : st[c] = "ok" THEN resp ELSE NoResp

\* flightSearchResponse after the forEach over the settled members: the
\* response of the fulfilled main search, null (NoResp) when it rejected
FulfilledSearch(st, resp) ==
  IF st["flightSearch"] = "ok" THEN resp ELSE NoResp

\* variant: any non-zero recordCount is taken for a blocked response
BlockedHeuristic_Mut(h, doc) == h = "cycletls" /\ doc.rc # 0

\* the recordCount === 1 check, made (and logged) by the CycleTLS handler only
BlockedHeuristic(h, doc) == h = "cycletls" /\ doc.rc = 1

\* variant: the message is built from the name the failed outcome was
\* recorded under
FatalMessage_Mut(rs) ==
  LET failed == {i \in 1..Len(rs) : ~rs[i].success}
  IN  IF failed # {}
      THEN <<rs[SetMax(failed)].name, " failed: ", rs[SetMax(failed)].error>>
      ELSE <<"response not found">>

\* the error thrown when flightSearchResponse is null after Stage C
FatalMessage(rs) ==
  LET hits == {i \in 1..Len(rs) : rs[i].name = "FlightListSearchSSE"}
  IN  IF hits # {} /\ ~rs[SetMin(hits)].success
      THEN <<"FlightListSearchSSE", " failed: ", rs[SetMin(hits)].error>>
      ELSE <<"FlightListSearchSSE", " response not found">>

\* headers of the main search request: w-payload-source always, token only
\* when flightSearchToken is truthy
BuildSearchHeaders(token, wps) ==
  [n \in {"w-payload-source"} \cup (IF token # "" THEN {"token"} ELSE {}) |->
     IF n = "token" THEN token ELSE wps]

NoHeaders == [n \in {} |-> ""]

----------------------------------------------------------------------------
(* Initial state: a request has arrived, nothing has been issued *)

Init ==
  /\ handler \in Handlers
  /\ req \in Requests
  /\ req = "nopid" => handler = "sort"
  /\ pc = "start"
  /\ call = [c \in Calls |-> "idle"]
  /\ netIssued = [c \in Calls |-> 0]
  /\ err = [c \in Calls |-> ""]
  /\ oracle = [signature |-> "none", c_sign |-> "none"]
  /\ flightSearchToken = ""
  /\ wPayloadSource = ""
  /\ searchHeaders = NoHeaders
  /\ searchResp = NoResp
  /\ results = <<>>
  /\ flightSearchResponse = NoResp
  /\ blockedWarned = FALSE
  /\ res = <<>>
  /\ IdleAux

----------------------------------------------------------------------------
(* Building blocks of the actions *)

\* session.get / session.post of the calls in S: each goes on the transport
Issue(S) ==
  /\ call' = [c \in Calls |-> IF c \in S THEN "inflight" ELSE call[c]]
  /\ netIssued' = [c \in Calls |-> IF c \in S THEN netIssued[c] + 1
                                   ELSE netIssued[c]]

\* callGetRouteInfo (among the calls S issued with it): it signs its payload
\* with c_sign before session.post; when c_sign throws the async function
\* rejects and nothing goes on the transport
callGetRouteInfo(c, S) ==
  \E thrown \in BOOLEAN :
    IF thrown
    THEN /\ call' = [x \in Calls |-> IF x = c THEN "fail"
                                     ELSE IF x \in S THEN "inflight"
                                     ELSE call[x]]
         /\ netIssued' = [x \in Calls |-> IF x \in S THEN netIssued[x] + 1
                                          ELSE netIssued[x]]
    ELSE Issue(S \cup {c})

\* the handler sends m as its response and ends
Respond(m) ==
  /\ res' = Append(res, m)
  /\ pc' = "done"

Awaiting(p, S) ==
  /\ pc = p
  /\ \A c \in S : call[c] \in Settled

----------------------------------------------------------------------------
(* The transport settles one call in flight *)

Settle(c) ==
  /\ call[c] = "inflight"
  /\ \/ /\ call' = [call EXCEPT ![c] = "ok"]
        /\ err' = err
        /\ IF c \in {"flightSearch", "sortSearch"}
           THEN \E r \in SearchResponses : searchResp' = r
           ELSE searchResp' = searchResp
     \/ /\ call' = [call EXCEPT ![c] = "fail"]
        /\ IF c \in ErrReported
           THEN \E d \in ErrDescs : err' = [err EXCEPT ![c] = d]
           ELSE err' = err
        /\ searchResp' = searchResp
  /\ UNCHANGED <<handler, req, pc, netIssued, oracle, flightSearchToken,
                 wPayloadSource, searchHeaders, results, flightSearchResponse,
                 blockedWarned, res>>
  /\ UNCHANGED auxVars

----------------------------------------------------------------------------
(* Session bootstrap *)

\* variant: the productId check is made after the session bootstrap
StartOperation_Mut ==
  /\ pc = "start"
  /\ CASE req = "nourl"  -> Respond(BadRequest) /\ UNCHANGED <<call, netIssued>>
       [] req = "badurl" -> Respond(FailureResult(<<"Invalid URL">>))
                            /\ UNCHANGED <<call, netIssued>>
       [] OTHER          -> Issue({"rootGet"}) /\ pc' = "rootGet"
                            /\ res' = res
  /\ UNCHANGED <<handler, req, err, oracle, flightSearchToken, wPayloadSource,
                 searchHeaders, searchResp, results, flightSearchResponse,
                 blockedWarned>>
  /\ UNCHANGED auxVars

\* The handler starts: url check (and productId check of the sort/refine
\* handler), parseTripUrl, new session, and the root GET of
\* getCookiesFromHostname
StartOperation ==
  /\ pc = "start"
  /\ CASE req = "nourl"  -> Respond(BadRequest) /\ UNCHANGED <<call, netIssued>>
       [] req = "nopid"  -> Respond(BadRequestProductId)
                            /\ UNCHANGED <<call, netIssued>>
       [] req = "badurl" -> Respond(FailureResult(<<"Invalid URL">>))
                            /\ UNCHANGED <<call, netIssued>>
       [] OTHER          -> Issue({"rootGet"}) /\ pc' = "rootGet"
                            /\ res' = res
  /\ UNCHANGED <<handler, req, err, oracle, flightSearchToken, wPayloadSource,
                 searchHeaders, searchResp, results, flightSearchResponse,
                 blockedWarned>>
  /\ UNCHANGED auxVars

\* getCookiesFromHostname resumes: a rejected root GET is not caught and
\* reaches the handler's catch block; otherwise the cookies are stored and the
\* client-id issuance POST goes out
RootGetDone ==
  /\ handler \in InitialHandlers
  /\ Awaiting("rootGet", {"rootGet"})
  /\ IF call["rootGet"] = "fail"
     THEN Respond(FailureResult(TransportMessage(err["rootGet"])))
          /\ UNCHANGED <<call, netIssued>>
     ELSE Issue({"createClientId"}) /\ pc' = "createClientId" /\ res' = res
  /\ UNCHANGED <<handler, req, err, oracle, flightSearchToken, wPayloadSource,
                 searchHeaders, searchResp, results, flightSearchResponse,
                 blockedWarned>>
  /\ UNCHANGED auxVars

\* variant: the client-id issuance is awaited outside any try/catch
ClientIdDone_Mut ==
  /\ Awaiting("createClientId", {"createClientId"})
  /\ IF call["createClientId"] = "fail"
     THEN Respond(FailureResult(TransportMessage(err["createClientId"])))
          /\ UNCHANGED <<call, netIssued>>
     ELSE Issue({"targetGet"}) /\ pc' = "targetGet" /\ res' = res
  /\ UNCHANGED <<handler, req, err, oracle, flightSearchToken, wPayloadSource,
                 searchHeaders, searchResp, results, flightSearchResponse,
                 blockedWarned>>
  /\ UNCHANGED auxVars

\* The client-id issuance settles inside its try/catch; either way the
\* requested search URL is visited next
ClientIdDone ==
  /\ Awaiting("createClientId", {"createClientId"})
  /\ Issue({"targetGet"})
  /\ pc' = "targetGet"
  /\ UNCHANGED <<handler, req, err, oracle, flightSearchToken, wPayloadSource,
                 searchHeaders, searchResp, results, flightSearchResponse,
                 blockedWarned, res>>
  /\ UNCHANGED auxVars

\* variant: the handler resumes only when the visit resolves; a rejection is
\* never observed
TargetGetDone_Mut ==
  /\ Awaiting("targetGet", {"targetGet"})
  /\ call["targetGet"] = "ok"
  /\ pc' = "pageLoad" /\ res' = res
  /\ UNCHANGED <<handler, req, call, netIssued, err, oracle,
                 flightSearchToken, wPayloadSource, searchHeaders, searchResp,
                 results, flightSearchResponse, blockedWarned>>
  /\ UNCHANGED auxVars

\* The visit of the search URL settles: a rejection reaches the catch block,
\* otherwise the handler waits 1-2 s for the simulated page load
TargetGetDone ==
  /\ Awaiting("targetGet", {"targetGet"})
  /\ IF call["targetGet"] = "fail"
     THEN Respond(FailureResult(TransportMessage(err["targetGet"])))
     ELSE pc' = "pageLoad" /\ res' = res
  /\ UNCHANGED <<handler, req, call, netIssued, err, oracle,
                 flightSearchToken, wPayloadSource, searchHeaders, searchResp,
                 results, flightSearchResponse, blockedWarned>>
  /\ UNCHANGED auxVars

\* signature(tokenPayload) inside try/catch: a throw leaves the token ''
signature(outcome) == IF outcome = "sig" THEN "sig.token" ELSE ""

\* c_sign(payloadMd5, userAgent), called outside any try/catch
c_sign(outcome) == IF outcome = "sig" THEN "sig.wps" ELSE ""

\* After the page-load delay: cookie merge, batch id, payloads, the two
\* signing oracles, and the start of Stage A (the gRPC handler issues its four
\* calls together; the CycleTLS handler starts its first 300 ms delay)
PrepareSearchRequest ==
  /\ pc = "pageLoad"
  /\ \E s \in OracleOutcomes, w \in OracleOutcomes :
       /\ oracle' = [signature |-> s, c_sign |-> w]
       /\ flightSearchToken' = signature(s)
       /\ IF w = "throw"
          THEN /\ \E d \in ErrDescs : Respond(FailureResult(TransportMessage(d)))
               /\ UNCHANGED <<call, netIssued, wPayloadSource>>
          ELSE /\ wPayloadSource' = c_sign(w)
               /\ pc' = "stageA"
               /\ res' = res
               /\ IF handler = "grpc"
                  THEN callGetRouteInfo("getRouteInfo1",
                                        StageASet \ {"getRouteInfo1"})
                  ELSE UNCHANGED <<call, netIssued>>
  /\ UNCHANGED <<handler, req, err, searchHeaders, searchResp, results,
                 flightSearchResponse, blockedWarned>>
  /\ UNCHANGED auxVars

----------------------------------------------------------------------------
(* Orchestration: Stages A to E *)

\* variant: a call that failed is picked again before the chain moves on
NextStageA_Mut ==
  StageA[SetMin({i \in 1..Len(StageA) : call[StageA[i]] \in {"idle", "fail"}})]

\* the first Stage A call, in source order, that has not been started
NextStageA == StageA[SetMin({i \in 1..Len(StageA) : call[StageA[i]] = "idle"})]

\* CycleTLS Stage A: after a 300 ms delay the next call is issued, once the
\* previous one has settled inside its own try/catch
CycleStageAStep ==
  /\ handler = "cycletls"
  /\ pc = "stageA"
  /\ \A c \in StageASet : call[c] # "inflight"
  /\ \E c \in StageASet : call[c] = "idle"
  /\ IF NextStageA = "getRouteInfo1"
     THEN callGetRouteInfo("getRouteInfo1", {})
     ELSE Issue({NextStageA})
  /\ UNCHANGED <<handler, req, pc, err, oracle, flightSearchToken,
                 wPayloadSource, searchHeaders, searchResp, results,
                 flightSearchResponse, blockedWarned, res>>
  /\ UNCHANGED auxVars

\* variant: only the last call of the batch is awaited
StageAJoin_Mut ==
  /\ Awaiting("stageA", {"getRouteInfo1"})
  /\ callGetRouteInfo("getRouteInfo2", {})
  /\ pc' = "stageB"
  /\ UNCHANGED <<handler, req, err, oracle, flightSearchToken, wPayloadSource,
                 searchHeaders, searchResp, results, flightSearchResponse,
                 blockedWarned, res>>
  /\ UNCHANGED auxVars

\* All four Stage A calls have settled (the last try/catch of the CycleTLS
\* handler, Promise.allSettled of the gRPC handler): Stage B's route-info call
StageAJoin ==
  /\ Awaiting("stageA", StageASet)
  /\ callGetRouteInfo("getRouteInfo2", {})
  /\ pc' = "stageB"
  /\ UNCHANGED <<handler, req, err, oracle, flightSearchToken, wPayloadSource,
                 searchHeaders, searchResp, results, flightSearchResponse,
                 blockedWarned, res>>
  /\ UNCHANGED auxVars

\* Stage B has settled inside its try/catch: the telemetry payload is built
\* and the Stage C fan-out starts. The gRPC handler issues both members at
\* once; each CycleTLS member first awaits its own delay (100 ms, 300 ms)
StageBJoin ==
  /\ Awaiting("stageB", {"getRouteInfo2"})
  /\ pc' = "stageC"
  /\ IF handler = "grpc"
     THEN /\ Issue(StageCSet)
          /\ searchHeaders' = BuildSearchHeaders(flightSearchToken, wPayloadSource)
     ELSE UNCHANGED <<call, netIssued, searchHeaders>>
  /\ UNCHANGED <<handler, req, err, oracle, flightSearchToken, wPayloadSource,
                 searchResp, results, flightSearchResponse, blockedWarned, res>>
  /\ UNCHANGED auxVars

\* CycleTLS Stage C, collect member: its 100 ms delay has elapsed
CycleIssueCollect ==
  /\ handler = "cycletls"
  /\ pc = "stageC"
  /\ call["ubtCollect"] = "idle"
  /\ Issue({"ubtCollect"})
  /\ UNCHANGED <<handler, req, pc, err, oracle, flightSearchToken,
                 wPayloadSource, searchHeaders, searchResp, results,
                 flightSearchResponse, blockedWarned, res>>
  /\ UNCHANGED auxVars

\* CycleTLS Stage C, main search member: its 300 ms delay has elapsed (the
\* 100 ms timer of the collect member, armed in the same tick, fired before)
CycleIssueSearch ==
  /\ handler = "cycletls"
  /\ pc = "stageC"
  /\ call["flightSearch"] = "idle"
  /\ call["ubtCollect"] # "idle"
  /\ Issue({"flightSearch"})
  /\ searchHeaders' = BuildSearchHeaders(flightSearchToken, wPayloadSource)
  /\ UNCHANGED <<handler, req, pc, err, oracle, flightSearchToken,
                 wPayloadSource, searchResp, results, flightSearchResponse,
                 blockedWarned, res>>
  /\ UNCHANGED auxVars

\* variant: the join resumes as soon as the main search has settled
StageCJoin_Mut ==
  /\ Awaiting("stageC", {"flightSearch"})
  /\ results' = BuildResults(handler, call, err)
  /\ flightSearchResponse' = FulfilledSearch(call, searchResp)
  /\ Issue({"fingerprint"})
  /\ pc' = "stageD"
  /\ UNCHANGED <<handler, req, err, oracle, flightSearchToken, wPayloadSource,
                 searchHeaders, searchResp, blockedWarned, res>>
  /\ UNCHANGED auxVars

\* Promise.allSettled of Stage C resolves: the outcomes are collected into
\* results, flightSearchResponse is taken from the fulfilled main search, and
\* the Stage D anti-fingerprint registration is issued
StageCJoin ==
  /\ Awaiting("stageC", StageCSet)
  /\ results' = BuildResults(handler, call, err)
  /\ flightSearchResponse' = FulfilledSearch(call, searchResp)
  /\ Issue({"fingerprint"})
  /\ pc' = "stageD"
  /\ UNCHANGED <<handler, req, err, oracle, flightSearchToken, wPayloadSource,
                 searchHeaders, searchResp, blockedWarned, res>>
  /\ UNCHANGED auxVars

\* Stage D has settled inside its try/catch. Without a main search response
\* the handler throws; otherwise the body is decoded: when it parses, the
\* blocked heuristic is logged (CycleTLS only) and the Stage E risk call is
\* issued; when it does not, the raw body is returned at once
StageDJoin ==
  /\ Awaiting("stageD", {"fingerprint"})
  /\ IF flightSearchResponse = NoResp
     THEN /\ Respond(FailureResult(FatalMessage(results)))
          /\ UNCHANGED <<call, netIssued, blockedWarned>>
     ELSE LET doc == DecodeSearchBody(handler, flightSearchResponse.body)
          IN  IF doc.valid
              THEN /\ blockedWarned' = BlockedHeuristic(handler, doc)
                   /\ Issue({"risk"})
                   /\ pc' = "stageE"
                   /\ res' = res
              ELSE /\ Respond(SuccessResult(flightSearchResponse, doc))
                   /\ UNCHANGED <<call, netIssued, blockedWarned>>
  /\ UNCHANGED <<handler, req, err, oracle, flightSearchToken, wPayloadSource,
                 searchHeaders, searchResp, results, flightSearchResponse>>
  /\ UNCHANGED auxVars

\* variant: the risk call has no try/catch of its own, so its rejection lands
\* in the catch of the parsing block, which returns the raw body
StageEJoin_Mut ==
  /\ Awaiting("stageE", {"risk"})
  /\ Respond(SuccessResult(flightSearchResponse,
                            IF call["risk"] = "fail" THEN BadDoc
                            ELSE DecodeSearchBody(handler,
                                                  flightSearchResponse.body)))
  /\ UNCHANGED <<handler, req, call, netIssued, err, oracle,
                 flightSearchToken, wPayloadSource, searchHeaders, searchResp,
                 results, flightSearchResponse, blockedWarned>>
  /\ UNCHANGED auxVars

\* Stage E has settled inside its try/catch: the success result is returned
StageEJoin ==
  /\ Awaiting("stageE", {"risk"})
  /\ Respond(SuccessResult(flightSearchResponse,
                            DecodeSearchBody(handler, flightSearchResponse.body)))
  /\ UNCHANGED <<handler, req, call, netIssued, err, oracle,
                 flightSearchToken, wPayloadSource, searchHeaders, searchResp,
                 results, flightSearchResponse, blockedWarned>>
  /\ UNCHANGED auxVars

----------------------------------------------------------------------------
(* The sort/refine handler *)

\* getCookiesFromHostname resumes in the sort/refine handler: a rejected root
\* GET reaches the catch block; otherwise the payloads are built, the two
\* signing oracles are called (c_sign outside any try/catch) and the search
\* call (FlightListSearch) is issued
SortRootGetDone ==
  /\ handler = "sort"
  /\ Awaiting("rootGet", {"rootGet"})
  /\ IF call["rootGet"] = "fail"
     THEN /\ Respond(FailureResult(TransportMessage(err["rootGet"])))
          /\ UNCHANGED <<call, netIssued, oracle, flightSearchToken,
                         wPayloadSource, searchHeaders>>
     ELSE \/ \* the root response set no _combined cookie:
             \* cookies._combined.transactionId in buildFlightSearchPayload
             \* throws a TypeError, which the catch block reports
             /\ Respond(FailureResult(
                          <<"Cannot read properties of undefined">>))
             /\ UNCHANGED <<call, netIssued, oracle, flightSearchToken,
                            wPayloadSource, searchHeaders>>
          \/ \E s \in OracleOutcomes, w \in OracleOutcomes :
               /\ oracle' = [signature |-> s, c_sign |-> w]
               /\ flightSearchToken' = signature(s)
               /\ IF w = "throw"
                  THEN /\ \E d \in ErrDescs :
                            Respond(FailureResult(TransportMessage(d)))
                       /\ UNCHANGED <<call, netIssued, wPayloadSource,
                                      searchHeaders>>
                  ELSE /\ wPayloadSource' = c_sign(w)
                       /\ searchHeaders' =
                            BuildSearchHeaders(signature(s), c_sign(w))
                       /\ Issue({"sortSearch"})
                       /\ pc' = "sortSearch"
                       /\ res' = res
  /\ UNCHANGED <<handler, req, err, searchResp, results,
                 flightSearchResponse, blockedWarned>>
  /\ UNCHANGED auxVars

\* The search call of the sort/refine handler settles: a rejection reaches
\* the catch block, a response is returned parsed, or raw when it does not
\* parse
SortSearchDone ==
  /\ Awaiting("sortSearch", {"sortSearch"})
  /\ IF call["sortSearch"] = "fail"
     THEN Respond(FailureResult(TransportMessage(err["sortSearch"])))
     ELSE Respond(SortResult(searchResp, SortDecode(searchResp.body)))
  /\ UNCHANGED <<handler, req, call, netIssued, err, oracle,
                 flightSearchToken, wPayloadSource, searchHeaders, searchResp,
                 results, flightSearchResponse, blockedWarned>>
  /\ UNCHANGED auxVars

----------------------------------------------------------------------------

Transport == \E c \in Calls : Settle(c)

Next ==
  \/ StartOperation
  \/ RootGetDone
  \/ ClientIdDone
  \/ TargetGetDone
  \/ PrepareSearchRequest
  \/ CycleStageAStep
  \/ StageAJoin
  \/ StageBJoin
  \/ CycleIssueCollect
  \/ CycleIssueSearch
  \/ StageCJoin
  \/ StageDJoin
  \/ StageEJoin
  \/ SortRootGetDone
  \/ SortSearchDone
  \/ Transport

----------------------------------------------------------------------------
(* PairSpec: two operations of the CycleTLS handler in one process, their      *)
(* awaits interleaved. What is modelled is where each write of an operation *)
(* lands: in an object the invocation created (the session and its cookie   *)
(* jar, the rootCookies record) or in a place the whole process shares (a   *)
(* file of the working directory, the user agent of the c-sign module).     *)
(* The calls of Stages A to C write nothing and are one step here.          *)

Ops == {1, 2}

\* the places the handler writes to: named by what the code writes through
WriteTargets == {"session", "rootCookies", "response-root.html",
                 "cookie.txt", "userAgent"}

\* `session` and `rootCookies` are consts of the handler invocation;
\* fs.writeFileSync is given a fixed relative path; setUserAgent sets a
\* variable of the c-sign module
Location(o, target) ==
  IF target \in {"session", "rootCookies"} THEN <<target, o>>
  ELSE <<target, 0>>

Locations == {Location(o, t) : o \in Ops, t \in WriteTargets}

\* operation o writes through the targets T
Write(o, T) ==
  /\ store' = [l \in Locations |->
                 IF \E t \in T : l = Location(o, t) THEN o ELSE store[l]]
  /\ wrote' = [wrote EXCEPT ![o] = @ \cup {Location(o, t) : t \in T}]

PairInit ==
  /\ opPc = [o \in Ops |-> "start"]
  /\ opSearch = [o \in Ops |-> "none"]
  /\ store = [l \in Locations |-> 0]
  /\ wrote = [o \in Ops |-> {}]
  /\ IdleNotPair

\* new CycleTLSSession(...), then the root GET is issued
PairStart(o) ==
  /\ opPc[o] = "start"
  /\ UNCHANGED notPair
  /\ Write(o, {"session"})
  /\ opPc' = [opPc EXCEPT ![o] = "rootGet"]
  /\ UNCHANGED opSearch

\* the root GET settles: response-root.html is written, the cookie record is
\* built and copied into the session; a rejection ends the operation
PairRootGetDone(o) ==
  /\ opPc[o] = "rootGet"
  /\ UNCHANGED notPair
  /\ \E ok \in BOOLEAN :
       IF ok
       THEN /\ Write(o, {"response-root.html", "rootCookies", "session"})
            /\ opPc' = [opPc EXCEPT ![o] = "createClientId"]
       ELSE /\ opPc' = [opPc EXCEPT ![o] = "done"]
            /\ UNCHANGED <<store, wrote>>
  /\ UNCHANGED opSearch

\* the client-id issuance settles: an issued ClientID is stored as GUID
PairClientIdDone(o) ==
  /\ opPc[o] = "createClientId"
  /\ UNCHANGED notPair
  /\ \E issued \in BOOLEAN :
       IF issued THEN Write(o, {"rootCookies", "session"})
       ELSE UNCHANGED <<store, wrote>>
  /\ opPc' = [opPc EXCEPT ![o] = "targetGet"]
  /\ UNCHANGED opSearch

\* the visit of the search URL settles: _combined, _bfa and the response's
\* cookies are stored; a rejection ends the operation
PairTargetGetDone(o) ==
  /\ opPc[o] = "targetGet"
  /\ UNCHANGED notPair
  /\ \E ok \in BOOLEAN :
       IF ok
       THEN /\ Write(o, {"rootCookies", "session"})
            /\ opPc' = [opPc EXCEPT ![o] = "stagesAtoC"]
       ELSE /\ opPc' = [opPc EXCEPT ![o] = "done"]
            /\ UNCHANGED <<store, wrote>>
  /\ UNCHANGED opSearch

\* Stages A to C have settled (or c_sign threw before them, which ends the
\* operation): Stage D sets the user agent of the c-sign module and issues
\* the anti-fingerprint registration
PairStageCJoin(o) ==
  /\ opPc[o] = "stagesAtoC"
  /\ UNCHANGED notPair
  /\ \E outcome \in {"ok", "fail", "throw"} :
       /\ opSearch' = [opSearch EXCEPT ![o] = outcome]
       /\ IF outcome = "throw"
          THEN /\ opPc' = [opPc EXCEPT ![o] = "done"]
               /\ UNCHANGED <<store, wrote>>
          ELSE /\ Write(o, {"userAgent"})
               /\ opPc' = [opPc EXCEPT ![o] = "stageD"]

\* Stage D settles: four tokens are stored when the response carries them;
\* without a main search response the handler throws, otherwise cookie.txt
\* is written and the response is decoded (Stage E follows when it parses)
PairStageDJoin(o) ==
  /\ opPc[o] = "stageD"
  /\ UNCHANGED notPair
  /\ \E tokens \in BOOLEAN, parses \in BOOLEAN :
       LET T == (IF tokens THEN {"rootCookies", "session"} ELSE {})
                  \cup (IF opSearch[o] = "ok" THEN {"cookie.txt"} ELSE {})
       IN  /\ Write(o, T)
           /\ opPc' = [opPc EXCEPT ![o] =
                         IF opSearch[o] = "ok" /\ parses THEN "stageE"
                         ELSE "done"]
  /\ UNCHANGED opSearch

\* Stage E settles and the response is sent
PairStageEJoin(o) ==
  /\ opPc[o] = "stageE"
  /\ UNCHANGED notPair
  /\ opPc' = [opPc EXCEPT ![o] = "done"]
  /\ UNCHANGED <<opSearch, store, wrote>>

PairNext ==
  \E o \in Ops :
    \/ PairStart(o)
    \/ PairRootGetDone(o)
    \/ PairClientIdDone(o)
    \/ PairTargetGetDone(o)
    \/ PairStageCJoin(o)
    \/ PairStageDJoin(o)
    \/ PairStageEJoin(o)

----------------------------------------------------------------------------
(* BuildSpec: the payload builders, called in the order of the handlers.    *)
(* A builder is given references to the parsed parameters and the cookie    *)
(* record, so its result here is the payload together with the state of its *)
(* arguments after the call. Only the fields the properties read are kept   *)
(* in a payload; strings are sample values.                                 *)

\* String.prototype.toLowerCase / toUpperCase on the sample strings
toLowerCase(str) ==
  CASE str = "RT" -> "rt" [] str = "OW" -> "ow" [] str = "JKT" -> "jkt"
    [] str = "BKK" -> "bkk" [] str = "CGK" -> "cgk" [] str = "DMK" -> "dmk"
    [] OTHER -> str

toUpperCase(str) ==
  CASE str = "rt" -> "RT" [] str = "ow" -> "OW" [] str = "jkt" -> "JKT"
    [] str = "bkk" -> "BKK" [] str = "cgk" -> "CGK" [] str = "dmk" -> "DMK"
    [] str = "id" -> "ID" [] str = "sg" -> "SG" [] str = "www" -> "WWW"
    [] OTHER -> str

\* sample FlightSearchParams, as parseTripUrl returns them ('' stands for a
\* missing optional field: both are falsy)
ParamSamples ==
  [triptype : {"rt", "RT", "ow"}, rdate : {"", "2026-01-27"},
   ddate : {"2026-01-22"}, dcity : {"jkt"}, acity : {"bkk"},
   dairport : {"", "cgk"}, aairport : {"", "dmk"}]

\* cookies._combined: the object generateCombinedCookie returns, the string
\* value of the target response's cookie, or nothing (sort/refine handler, a
\* root response without the cookie)
CombinedSamples ==
  { [kind |-> "object", transactionId |-> "1-mf-T0-WEB"],
    [kind |-> "string", transactionId |-> ""],
    [kind |-> "absent", transactionId |-> ""] }

CookieSamples ==
  [GUID : {"g1"}, UBT_VID : {"v1"}, transactionId : {"", "tx-page"},
   pageId : {"10320667452"}, _combined : CombinedSamples]

\* values generateUUID may return
UUIDs == {"uuid-a", "uuid-b"}

\* generateFltAppSessionTransactionId(now)
GeneratedTransactionId == "1-mf-T1-WEB-generated"

\* const tripType = params.triptype.toLowerCase() === 'rt' ? 2 : 1
TripType(p) == IF toLowerCase(p.triptype) = "rt" THEN 2 ELSE 1

\* variant: the return leg is added for every round trip, dated or not
journeyInfoTypes_Mut(p) ==
  LET outbound ==
        [journeyNo |-> 1, departDate |-> p.ddate,
         departCode |-> IF p.dairport # "" THEN "" ELSE toUpperCase(p.dcity),
         arriveCode |-> IF p.aairport # "" THEN "" ELSE toUpperCase(p.acity),
         departAirport |-> IF p.dairport # "" THEN toUpperCase(p.dairport) ELSE "",
         arriveAirport |-> IF p.aairport # "" THEN toUpperCase(p.aairport) ELSE ""]
      return ==
        [journeyNo |-> 2, departDate |-> p.rdate,
         departCode |-> IF p.aairport # "" THEN "" ELSE toUpperCase(p.acity),
         arriveCode |-> IF p.dairport # "" THEN "" ELSE toUpperCase(p.dcity),
         departAirport |-> IF p.aairport # "" THEN toUpperCase(p.aairport) ELSE "",
         arriveAirport |-> IF p.dairport # "" THEN toUpperCase(p.dairport) ELSE ""]
  IN  IF TripType(p) = 2 THEN <<outbound, return>> ELSE <<outbound>>

\* variant: the return leg keeps the city codes when an airport is given
journeyInfoTypes_MutCity(p) ==
  LET outbound ==
        [journeyNo |-> 1, departDate |-> p.ddate,
         departCode |-> IF p.dairport # "" THEN "" ELSE toUpperCase(p.dcity),
         arriveCode |-> IF p.aairport # "" THEN "" ELSE toUpperCase(p.acity),
         departAirport |-> IF p.dairport # "" THEN toUpperCase(p.dairport) ELSE "",
         arriveAirport |-> IF p.aairport # "" THEN toUpperCase(p.aairport) ELSE ""]
      return ==
        [journeyNo |-> 2, departDate |-> p.rdate,
         departCode |-> toUpperCase(p.acity),
         arriveCode |-> toUpperCase(p.dcity),
         departAirport |-> IF p.aairport # "" THEN toUpperCase(p.aairport) ELSE "",
         arriveAirport |-> IF p.dairport # "" THEN toUpperCase(p.dairport) ELSE ""]
  IN  IF p.rdate # "" /\ TripType(p) = 2 THEN <<outbound, return>>
      ELSE <<outbound>>

\* the journeyInfoTypes array (the same code in buildTokenPayload and in
\* buildFlightSearchPayload): the outbound leg, and the return leg when
\* params.rdate && tripType === 2
journeyInfoTypes(p) ==
  LET outbound ==
        [journeyNo |-> 1, departDate |-> p.ddate,
         departCode |-> IF p.dairport # "" THEN "" ELSE toUpperCase(p.dcity),
         arriveCode |-> IF p.aairport # "" THEN "" ELSE toUpperCase(p.acity),
         departAirport |-> IF p.dairport # "" THEN toUpperCase(p.dairport) ELSE "",
         arriveAirport |-> IF p.aairport # "" THEN toUpperCase(p.aairport) ELSE ""]
      return ==
        [journeyNo |-> 2, departDate |-> p.rdate,
         departCode |-> IF p.aairport # "" THEN "" ELSE toUpperCase(p.acity),
         arriveCode |-> IF p.dairport # "" THEN "" ELSE toUpperCase(p.dcity),
         departAirport |-> IF p.aairport # "" THEN toUpperCase(p.aairport) ELSE "",
         arriveAirport |-> IF p.dairport # "" THEN toUpperCase(p.dairport) ELSE ""]
  IN  IF p.rdate # "" /\ TripType(p) = 2 THEN <<outbound, return>>
      ELSE <<outbound>>

\* buildTokenPayload(params, fltBatchId, productId)
buildTokenPayload(p, batch, pid) ==
  [out |->
     [Head |-> [extension |-> [Flt_BatchId |-> batch]],
      searchCriteria |->
        [tripType |-> TripType(p), journeyInfoTypes |-> journeyInfoTypes(p),
         productId |-> pid],
      sortInfoType |-> [direction |-> TRUE, orderBy |-> "Direct"]],
   params |-> p]

\* variant: the transaction id the builder generates is stored back into the
\* cookie record it was given
buildFlightSearchPayload_Mut(p, c, batch, pid) ==
  LET tx == IF c._combined.transactionId # "" THEN c._combined.transactionId
            ELSE GeneratedTransactionId
  IN  [threw |-> c._combined.kind = "absent",
       out |->
         [searchCriteria |->
            [tripType |-> TripType(p), journeyInfoTypes |-> journeyInfoTypes(p),
             productId |-> pid],
          sortInfoType |-> [direction |-> TRUE, orderBy |-> "Direct"],
          head |->
            [cid |-> c.GUID,
             extension |->
               [flt_app_session_transactionId |-> tx, vid |-> c.UBT_VID,
                PageId |-> c.pageId, Flt_BatchId |-> batch]]],
       params |-> p,
       cookies |-> [c EXCEPT !.transactionId = tx]]

\* buildFlightSearchPayload(params, cookies, fltBatchId, productId); reading
\* cookies._combined.transactionId throws when cookies._combined is undefined
buildFlightSearchPayload(p, c, batch, pid) ==
  LET tx == IF c._combined.transactionId # "" THEN c._combined.transactionId
            ELSE GeneratedTransactionId
  IN  [threw |-> c._combined.kind = "absent",
       out |->
         [searchCriteria |->
            [tripType |-> TripType(p), journeyInfoTypes |-> journeyInfoTypes(p),
             productId |-> pid],
          sortInfoType |-> [direction |-> TRUE, orderBy |-> "Direct"],
          head |->
            [cid |-> c.GUID,
             extension |->
               [flt_app_session_transactionId |-> tx, vid |-> c.UBT_VID,
                PageId |-> c.pageId, Flt_BatchId |-> batch]]],
       params |-> p,
       cookies |-> c]

\* buildWPayloadSourcePayload(params, cookies, fullPayload, fltBatchId); the
\* AbTesting weights it draws are not kept
buildWPayloadSourcePayload(p, c, full, batch) ==
  LET legs == full.searchCriteria.journeyInfoTypes
      ext  == full.head.extension
  IN  [out |->
         [dCity |-> toUpperCase(legs[1].departCode),
          aCity |-> toUpperCase(legs[1].arriveCode),
          dDate |-> legs[1].departDate,
          aDate |-> IF Len(legs) > 1 THEN legs[2].departDate ELSE "",
          flightWayType |-> IF TripType(p) = 2 THEN "RT" ELSE "OW",
          departureAirport |-> legs[1].departAirport,
          arrivalAirport |-> legs[1].arriveAirport,
          Head |->
            [TransactionID |->
               IF ext.flt_app_session_transactionId # ""
               THEN ext.flt_app_session_transactionId ELSE c.transactionId,
             ExtendFields |-> [PageId |-> ext.PageId, BatchedId |-> batch]]],
       params |-> p,
       cookies |-> c,
       fullPayload |-> full]

\* the routeInfoPayload object built in callGetRouteInfo: the trip type is
\* compared with 'rt' as it is, without toLowerCase
buildRouteInfoPayload(p, c) ==
  LET there == [departCity |-> toUpperCase(p.dcity),
                arriveCity |-> toUpperCase(p.acity)]
      back  == [departCity |-> toUpperCase(p.acity),
                arriveCity |-> toUpperCase(p.dcity)]
  IN  [out |->
         [departure |-> toUpperCase(p.dcity), arrival |-> toUpperCase(p.acity),
          searchSegmentList |->
            IF p.triptype = "rt" /\ p.rdate # "" THEN <<there, back>>
            ELSE <<there>>,
          tripType |-> IF p.triptype = "rt" THEN "RT" ELSE "OW",
          Head |-> [TransactionID |-> c.transactionId, VID |-> c.UBT_VID,
                    ClientID |-> c.GUID]],
       params |-> p,
       cookies |-> c]

\* values of Date.now() at the call of buildUbtPayload
SendTsSamples == {1700000000}

\* Math.floor(Math.random() * n): its least and greatest value
MathRandomFloor(n) == {0, n - 1}

\* ubtListItemsPart1: the offset each item adds to currentTimestamp (the
\* three items of the Array.from loop add 69 + i)
Part1Offsets == <<0, 0, 27, 30, 33, 38, 68, 69, 70, 71, 70>>

\* ubtListItemsPart2: each item's timestamp is
\* sendTs - Math.floor(Math.random() * range) - back
Part2Items ==
  [k \in 1..37 |-> IF k <= 2 THEN [range |-> 250000, back |-> 100000]
                   ELSE [range |-> 5000, back |-> 200000]]

\* variant: the second part restarts at 15
SequenceStart_Mut(part) == IF part = 1 THEN 34 ELSE 15

\* `let sequenceCounter = 34` before part 1, `sequenceCounter = 151` before
\* part 2
SequenceStart(part) == IF part = 1 THEN 34 ELSE 151

\* a field of req.body: given with a value, or undefined
Given(v) == [given |-> TRUE, value |-> v]

Undefined(v) == [given |-> FALSE, value |-> v]

\* a destructuring default: it replaces undefined only
Default(field, default) == IF field.given THEN field.value ELSE default

\* req.body without sortType and direction
NoSortBody == [sortType |-> Undefined(""), direction |-> Undefined(TRUE)]

\* the sortType and direction of a sort/refine request
SortBodies ==
  [sortType : {Undefined(""), Given("Duration")},
   direction : {Undefined(TRUE), Given(TRUE), Given(FALSE)}]

BuildInit ==
  /\ bStep = "generateUUID"
  /\ params \in ParamSamples
  /\ productId \in {"", RequestProductId}
  /\ cookies \in CookieSamples
  /\ cookies._combined.kind \in
       (IF productId = "" THEN {"object", "string"} ELSE {"string", "absent"})
  /\ jar = [_combined |-> "c0", GUID |-> "g1"]
  /\ fltBatchId = ""
  /\ tokenPayload = <<>>
  /\ payload = <<>>
  /\ wPayload = <<>>
  /\ routeInfoPayload = <<>>
  /\ ubt = <<>>
  /\ sortBody \in (IF productId = "" THEN {NoSortBody} ELSE SortBodies)
  /\ IdleNotBuild

\* const fltBatchId = generateUUID()
GenerateBatchId ==
  /\ bStep = "generateUUID"
  /\ \E id \in UUIDs : fltBatchId' = id
  /\ bStep' = "buildTokenPayload"
  /\ UNCHANGED <<params, productId, cookies, jar, tokenPayload, payload,
                 wPayload, routeInfoPayload, ubt>>
  /\ UNCHANGED sortBody
  /\ UNCHANGED notBuild

BuildToken ==
  /\ bStep = "buildTokenPayload"
  /\ LET r == buildTokenPayload(params, fltBatchId, productId)
     IN  /\ tokenPayload' = r.out
         /\ params' = r.params
  /\ bStep' = "buildFlightSearchPayload"
  /\ UNCHANGED <<productId, cookies, jar, fltBatchId, payload, wPayload,
                 routeInfoPayload, ubt>>
  /\ UNCHANGED sortBody
  /\ UNCHANGED notBuild

\* a throw of the builder reaches the handler's catch block
BuildSearch ==
  /\ bStep = "buildFlightSearchPayload"
  /\ LET r == buildFlightSearchPayload(params, cookies, fltBatchId, productId)
     IN  /\ payload' = IF r.threw THEN payload ELSE r.out
         /\ bStep' = IF r.threw THEN "threw"
                     ELSE IF productId # "" THEN "sortInfoType"
                     ELSE "buildWPayloadSourcePayload"
         /\ params' = r.params
         /\ cookies' = r.cookies
  /\ UNCHANGED <<productId, jar, fltBatchId, tokenPayload, wPayload,
                 routeInfoPayload, ubt>>
  /\ UNCHANGED sortBody
  /\ UNCHANGED notBuild

UpdateSortInfo_Mut ==
  /\ bStep = "sortInfoType"
  /\ bStep' = "buildWPayloadSourcePayload"
  /\ UNCHANGED <<params, productId, cookies, jar, fltBatchId, tokenPayload,
                 payload, wPayload, routeInfoPayload, ubt>>
  /\ UNCHANGED sortBody
  /\ UNCHANGED notBuild

\* "Update sort info in both payloads" (sort/refine handler only):
\* sortInfoType = {direction: direction, orderBy: sortType, topList: []}
UpdateSortInfo ==
  /\ bStep = "sortInfoType"
  /\ LET sortInfoType == [direction |-> Default(sortBody.direction, TRUE),
                          orderBy |-> Default(sortBody.sortType, "Price")]
     IN  /\ payload' = [payload EXCEPT !.sortInfoType = sortInfoType]
         /\ tokenPayload' = [tokenPayload EXCEPT !.sortInfoType = sortInfoType]
  /\ bStep' = "buildWPayloadSourcePayload"
  /\ UNCHANGED <<params, productId, cookies, jar, fltBatchId, wPayload,
                 routeInfoPayload, ubt>>
  /\ UNCHANGED sortBody
  /\ UNCHANGED notBuild

\* the sort/refine handler builds nothing after this payload
BuildWPayloadSource ==
  /\ bStep = "buildWPayloadSourcePayload"
  /\ LET r == buildWPayloadSourcePayload(params, cookies, payload, fltBatchId)
     IN  /\ wPayload' = r.out
         /\ params' = r.params
         /\ cookies' = r.cookies
         /\ payload' = r.fullPayload
  /\ bStep' = IF productId = "" THEN "callGetRouteInfo" ELSE "done"
  /\ UNCHANGED <<productId, jar, fltBatchId, tokenPayload, routeInfoPayload,
                 ubt>>
  /\ UNCHANGED sortBody
  /\ UNCHANGED notBuild

BuildRouteInfo ==
  /\ bStep = "callGetRouteInfo"
  /\ LET r == buildRouteInfoPayload(params, cookies)
     IN  /\ routeInfoPayload' = r.out
         /\ params' = r.params
         /\ cookies' = r.cookies
  /\ bStep' = "buildUbtPayload"
  /\ UNCHANGED <<productId, jar, fltBatchId, tokenPayload, payload, wPayload,
                 ubt>>
  /\ UNCHANGED sortBody
  /\ UNCHANGED notBuild

\* buildUbtPayload up to the ubtList: its own generateUUID() for Flt_BatchId,
\* baseTimestamp, and the sequence counter
BuildUbtBegin ==
  /\ bStep = "buildUbtPayload"
  /\ \E id \in UUIDs, r \in MathRandomFloor(30000), st \in SendTsSamples :
       ubt' = [Flt_BatchId |-> id, transactionid |-> cookies.transactionId,
               sendTs |-> st, currentTimestamp |-> st - r - 100000,
               sequenceCounter |-> SequenceStart(1), seqs |-> <<>>, ts |-> 0]
  /\ bStep' = "ubtList"
  /\ UNCHANGED <<params, productId, cookies, jar, fltBatchId, tokenPayload,
                 payload, wPayload, routeInfoPayload>>
  /\ UNCHANGED sortBody
  /\ UNCHANGED notBuild

\* the next item of the ubtList literals, evaluated in list order: seqs keeps
\* the sequence number of every item built, ts the timestamp of the last one
UbtListItem ==
  /\ bStep = "ubtList"
  /\ Len(ubt.seqs) < Len(Part1Offsets) + Len(Part2Items)
  /\ LET i == Len(ubt.seqs) + 1
         k == i - Len(Part1Offsets)
         counter == IF k = 1 THEN SequenceStart(2) ELSE ubt.sequenceCounter
     IN  \E r \in (IF k >= 1 THEN MathRandomFloor(Part2Items[k].range)
                   ELSE {0}) :
           ubt' = [ubt EXCEPT
                     !.seqs = Append(@, counter),
                     !.sequenceCounter = counter + 1,
                     !.ts = IF k >= 1
                            THEN ubt.sendTs - r - Part2Items[k].back
                            ELSE ubt.currentTimestamp + Part1Offsets[i]]
  /\ UNCHANGED <<bStep, params, productId, cookies, jar, fltBatchId,
                 tokenPayload, payload, wPayload, routeInfoPayload>>
  /\ UNCHANGED sortBody
  /\ UNCHANGED notBuild

\* buildUbtPayload returns {context, business, user, ubtList, sendTs}
BuildUbtEnd ==
  /\ bStep = "ubtList"
  /\ Len(ubt.seqs) = Len(Part1Offsets) + Len(Part2Items)
  /\ bStep' = "done"
  /\ UNCHANGED <<params, productId, cookies, jar, fltBatchId, tokenPayload,
                 payload, wPayload, routeInfoPayload, ubt>>
  /\ UNCHANGED sortBody
  /\ UNCHANGED notBuild

BuildNext ==
  \/ GenerateBatchId
  \/ BuildToken
  \/ BuildSearch
  \/ UpdateSortInfo
  \/ BuildWPayloadSource
  \/ BuildRouteInfo
  \/ BuildUbtBegin
  \/ UbtListItem
  \/ BuildUbtEnd

----------------------------------------------------------------------------
(* The cookie writes of the bootstrap (CookieSpec) *)

\* A string is modelled as the sequence of its pieces; 'nodejs' is one piece
Marker == "nodejs"

\* String.prototype.replace(/nodejs/g, 'WEB')
replaceNodejs(str) ==
  [j \in 1..Len(str) |-> IF str[j] = Marker THEN "WEB" ELSE str[j]]

\* String.prototype.includes('nodejs')
includesNodejs(str) == \E j \in 1..Len(str) : str[j] = Marker

\* no cookie of that name
Absent ==
  [present |-> FALSE, transactionId |-> <<>>, pageId |-> <<>>,
   malformed |-> FALSE]

\* The _combined cookie values a response may set. transactionId and pageId
\* are the fields of the decoded value (<<>>: no such field); malformed: the
\* value is no valid percent-encoding, so that decodeURIComponent throws
CombinedValues ==
  [present : {TRUE},
   transactionId : {<<>>, <<"1-mf-", "WEB">>, <<"1-mf-", "nodejs">>,
                    <<"nodejs", "-", "nodejs">>},
   pageId : {<<"10320667452">>, <<"nodejs">>},
   malformed : BOOLEAN]

CombinedReceived == CombinedValues \cup {Absent}

\* combined.replace(/nodejs/g, 'WEB') on a cookie value
replaceInCombined(v) ==
  [v EXCEPT !.transactionId = replaceNodejs(@), !.pageId = replaceNodejs(@)]

\* combined.includes('nodejs') on a cookie value
combinedIncludesNodejs(v) ==
  includesNodejs(v.transactionId) \/ includesNodejs(v.pageId)

\* generateCombinedCookie(): transactionId `1-mf-${ts}-WEB`, default pageId
generateCombinedCookie ==
  [present |-> TRUE, transactionId |-> <<"1-mf-", "ts", "-", "WEB">>,
   pageId |-> <<"10320667452">>, malformed |-> FALSE]

\* The GUID and UBT_VID cookies a root response may set ("": none)
RootIdentities == [GUID : {"", "guid-root"}, UBT_VID : {"", "vid-root"}]

\* a call that has not settled yet
NotSettled == [error |-> FALSE, statusCode |-> 0, parsable |-> FALSE,
               ClientID |-> "", string |-> FALSE, data |-> <<>>]

\* What the client-id issuance call may settle with: a transport failure
\* (error), or a response with its status code, whether JSON.parse accepts
\* its body, and the ClientID of the parsed body ("": none)
ClientIdResponses ==
  { [NotSettled EXCEPT !.error = TRUE],
    [NotSettled EXCEPT !.statusCode = 200, !.parsable = TRUE,
                       !.ClientID = "guid-issued"],
    [NotSettled EXCEPT !.statusCode = 200, !.parsable = TRUE],
    [NotSettled EXCEPT !.statusCode = 200],
    [NotSettled EXCEPT !.statusCode = 403, !.parsable = TRUE,
                       !.ClientID = "guid-issued"] }

\* What generate_rguid_rsg_rdg may settle with: a rejection (error), a
\* result whose data is no string, or a string, given as its pieces
CollectResponses ==
  { [NotSettled EXCEPT !.error = TRUE],
    NotSettled,
    [NotSettled EXCEPT !.string = TRUE],
    [NotSettled EXCEPT !.string = TRUE,
       !.data = <<"rguid", "|", "rf1", "|", "rsg", "|", "rdg">>],
    [NotSettled EXCEPT !.string = TRUE,
       !.data = <<"rguid", " ", "|", " ", "rf1", "|", "rsg", "|", " ", "rdg">>],
    [NotSettled EXCEPT !.string = TRUE,
       !.data = <<"rguid", "|", "rf1", "|", "rsg">>],
    [NotSettled EXCEPT !.string = TRUE,
       !.data = <<"rguid", "|", "|", "rsg", "|", "rdg">>],
    [NotSettled EXCEPT !.string = TRUE,
       !.data = <<"rguid", "|", "rf1", "|", "rsg", "|", "rdg", "|", "more">>] }

\* String.prototype.split('|')
RECURSIVE split(_)
split(str) ==
  IF \A j \in 1..Len(str) : str[j] # "|" THEN <<str>>
  ELSE LET bar == SetMin({j \in 1..Len(str) : str[j] = "|"})
       IN  <<SubSeq(str, 1, bar - 1)>> \o split(SubSeq(str, bar + 1, Len(str)))

\* String.prototype.trim()
RECURSIVE trim(_)
trim(str) ==
  IF str = <<>> THEN str
  ELSE IF Head(str) = " " THEN trim(Tail(str))
  ELSE IF str[Len(str)] = " " THEN trim(SubSeq(str, 1, Len(str) - 1))
  ELSE str

\* the clock readings Date.now() may give when the _bfa cookie is built
ClockReadings == {1700000000}

\* how far the clock may advance between two readings of one statement
MaxElapsed == 1

CookieInit ==
  /\ kStep = "rootGet"
  /\ rootReceived \in CombinedReceived
  /\ rootIdentity \in RootIdentities
  /\ targetReceived = Absent
  /\ clientIdResponse = NotSettled
  /\ collectResp = NotSettled
  /\ finalCookies = [_combined |-> Absent, transactionId |-> <<>>,
                     pageId |-> <<>>, GUID |-> "", UBT_VID |-> "",
                     _RGUID |-> <<>>, _RF1 |-> <<>>, _RSG |-> <<>>,
                     _RDG |-> <<>>]
  /\ cookieJar = [_combined |-> Absent, transactionId |-> <<>>,
                  pageId |-> <<>>, GUID |-> "", UBT_VID |-> "",
                  _RGUID |-> <<>>, _RF1 |-> <<>>, _RSG |-> <<>>,
                  _RDG |-> <<>>, _bfa |-> <<>>]
  /\ IdleNotCookie

\* getCookiesFromHostname: the extraction of GUID, UBT_VID and _combined
\* from the root response
RootCookies ==
  /\ kStep = "rootGet"
  /\ kStep' = "setRoot"
  /\ LET identified == [finalCookies EXCEPT !.GUID = rootIdentity.GUID,
                                            !.UBT_VID = rootIdentity.UBT_VID]
     IN finalCookies' =
       IF ~rootReceived.present THEN identified
       ELSE LET combined == IF combinedIncludesNodejs(rootReceived)
                            THEN replaceInCombined(rootReceived)
                            ELSE rootReceived
                transactionId ==
                  IF includesNodejs(combined.transactionId)
                  THEN replaceNodejs(combined.transactionId)
                  ELSE combined.transactionId
            IN  IF combined.malformed
                THEN \* decodeURIComponent throws: the catch only warns
                     [identified EXCEPT !._combined = combined]
                ELSE [identified EXCEPT !._combined = combined,
                                        !.transactionId = transactionId,
                                        !.pageId = combined.pageId]
  /\ UNCHANGED <<rootReceived, targetReceived, cookieJar, rootIdentity,
                 clientIdResponse, collectResp>>
  /\ UNCHANGED notCookie

\* "Ensure all cookies from rootCookies are set in the session": the named
\* ones first, then every cookie of allCookies (the response's own values)
SetRootCookies ==
  /\ kStep = "setRoot"
  /\ kStep' = "clientId"
  /\ cookieJar' =
       [cookieJar EXCEPT
          !.GUID = IF finalCookies.GUID # "" THEN finalCookies.GUID ELSE @,
          !.UBT_VID = IF finalCookies.UBT_VID # "" THEN finalCookies.UBT_VID
                      ELSE @,
          !._combined = IF rootReceived.present THEN rootReceived ELSE @,
          !.transactionId = IF finalCookies.transactionId # <<>>
                            THEN finalCookies.transactionId ELSE @,
          !.pageId = IF finalCookies.pageId # <<>> THEN finalCookies.pageId
                     ELSE @]
  /\ UNCHANGED <<rootReceived, targetReceived, finalCookies, rootIdentity,
                 clientIdResponse, collectResp>>
  /\ UNCHANGED notCookie

CreateClientId_Mut ==
  /\ kStep = "clientId"
  /\ kStep' = "targetGet"
  /\ \E r \in ClientIdResponses :
       /\ clientIdResponse' = r
       /\ IF ~r.error /\ r.parsable /\ r.ClientID # ""
          THEN /\ finalCookies' = [finalCookies EXCEPT !.GUID = r.ClientID]
               /\ cookieJar' = [cookieJar EXCEPT !.GUID = r.ClientID]
          ELSE UNCHANGED <<finalCookies, cookieJar>>
  /\ UNCHANGED <<rootReceived, targetReceived, rootIdentity, collectResp>>
  /\ UNCHANGED notCookie

\* "Step 3.6: Create Client ID": the POST and the overwrite of GUID; a
\* rejected call and an unparsable body are caught and only warned about
CreateClientId ==
  /\ kStep = "clientId"
  /\ kStep' = "targetGet"
  /\ \E r \in ClientIdResponses :
       /\ clientIdResponse' = r
       /\ IF ~r.error /\ r.statusCode = 200 /\ r.parsable /\ r.ClientID # ""
          THEN /\ finalCookies' = [finalCookies EXCEPT !.GUID = r.ClientID]
               /\ cookieJar' = [cookieJar EXCEPT !.GUID = r.ClientID]
          ELSE UNCHANGED <<finalCookies, cookieJar>>
  /\ UNCHANGED <<rootReceived, targetReceived, rootIdentity, collectResp>>
  /\ UNCHANGED notCookie

\* "Step 4: Visit target URL to get _combined cookie": session.get(url)
VisitTarget ==
  /\ kStep = "targetGet"
  /\ kStep' = "generate"
  /\ targetReceived' \in CombinedReceived
  /\ UNCHANGED <<rootReceived, finalCookies, cookieJar, rootIdentity,
                 clientIdResponse, collectResp>>
  /\ UNCHANGED notCookie

\* finalCookies._combined = generateCombinedCookie();
\* session.setCookie('_combined', combinedCookie.encoded)
GenerateCombined ==
  /\ kStep = "generate"
  /\ kStep' = "bfa"
  /\ finalCookies' = [finalCookies EXCEPT !._combined = generateCombinedCookie]
  /\ cookieJar' = [cookieJar EXCEPT !._combined = generateCombinedCookie]
  /\ UNCHANGED <<rootReceived, targetReceived, rootIdentity, clientIdResponse,
                 collectResp>>
  /\ UNCHANGED notCookie

\* session.setCookie('_bfa', `1.${UBT_VID}.1.${Date.now()}.${Date.now()+20000}
\* .1.1.${initPageId}`): the template reads the clock twice, and initPageId
\* is the one of the generated _combined (its pageId)
SetBfa ==
  /\ kStep = "bfa"
  /\ kStep' = "target"
  /\ \E first \in ClockReadings, elapsed \in 0..MaxElapsed :
       LET UBT_VID == IF finalCookies.UBT_VID = "" THEN "undefined"
                      ELSE finalCookies.UBT_VID
           initPageId == finalCookies._combined.pageId
       IN  cookieJar' =
             [cookieJar EXCEPT !._bfa = <<1, UBT_VID, 1, first,
                                          (first + elapsed) + 20000, 1, 1,
                                          initPageId>>]
  /\ UNCHANGED <<rootReceived, targetReceived, finalCookies, rootIdentity,
                 clientIdResponse, collectResp>>
  /\ UNCHANGED notCookie

\* if (targetResponse.cookies['_combined']) { ... }
TargetCombined ==
  /\ kStep = "target"
  /\ kStep' = "setTarget"
  /\ IF ~targetReceived.present
     THEN UNCHANGED <<finalCookies, cookieJar>>
     ELSE LET found == /\ ~targetReceived.malformed
                       /\ includesNodejs(targetReceived.transactionId)
              fallback == /\ targetReceived.malformed
                          /\ combinedIncludesNodejs(targetReceived)
              combined == IF found \/ fallback
                          THEN replaceInCombined(targetReceived)
                          ELSE targetReceived
              newTransactionId ==
                IF targetReceived.malformed THEN <<>>
                ELSE combined.transactionId
              newPageId ==
                IF targetReceived.malformed THEN <<>>
                ELSE targetReceived.pageId
          IN  /\ finalCookies' =
                   [finalCookies EXCEPT
                      !._combined = combined,
                      !.transactionId = IF newTransactionId # <<>>
                                        THEN newTransactionId ELSE @,
                      !.pageId = IF newPageId # <<>> THEN newPageId ELSE @]
              /\ cookieJar' = [cookieJar EXCEPT !._combined = combined]
  /\ UNCHANGED <<rootReceived, targetReceived, rootIdentity, clientIdResponse,
                 collectResp>>
  /\ UNCHANGED notCookie

\* "Ensure all cookies from target response are set in session": every
\* cookie of targetResponse.cookies, with the value the response carries
SetTargetCookies ==
  /\ kStep = "setTarget"
  /\ kStep' = "register"
  /\ cookieJar' = IF targetReceived.present
                  THEN [cookieJar EXCEPT !._combined = targetReceived]
                  ELSE cookieJar
  /\ UNCHANGED <<rootReceived, targetReceived, finalCookies, rootIdentity,
                 clientIdResponse, collectResp>>
  /\ UNCHANGED notCookie

\* the tokens of a registration result written into a cookie record
withTokens_Mut(cookieRecord, r) ==
  IF r.error \/ ~r.string THEN cookieRecord
  ELSE LET fields == split(r.data)
           parts == [j \in 1..Len(fields) |-> trim(fields[j])]
           part(j) == IF j <= Len(parts) THEN parts[j] ELSE <<>>
       IN  [cookieRecord EXCEPT
              !._RGUID = IF part(1) # <<>> THEN part(1) ELSE @,
              !._RF1 = IF part(2) # <<>> THEN part(2) ELSE @,
              !._RSG = IF part(3) # <<>> THEN part(3) ELSE @,
              !._RDG = IF part(4) # <<>> THEN part(4) ELSE @]

\* collectResp.data.split('|').map(s => s.trim()), and with at least 4
\* parts the write of every non-empty one of the first four
withTokens(cookieRecord, r) ==
  IF r.error \/ ~r.string THEN cookieRecord
  ELSE LET fields == split(r.data)
           parts == [j \in 1..Len(fields) |-> trim(fields[j])]
       IN  IF Len(parts) < 4 THEN cookieRecord
           ELSE [cookieRecord EXCEPT
                   !._RGUID = IF parts[1] # <<>> THEN parts[1] ELSE @,
                   !._RF1 = IF parts[2] # <<>> THEN parts[2] ELSE @,
                   !._RSG = IF parts[3] # <<>> THEN parts[3] ELSE @,
                   !._RDG = IF parts[4] # <<>> THEN parts[4] ELSE @]

\* Stage D: await generate_rguid_rsg_rdg(...) and the token writes; the
\* catch around them only warns
RegisterCookies ==
  /\ kStep = "register"
  /\ kStep' = "done"
  /\ \E r \in CollectResponses :
       /\ collectResp' = r
       /\ finalCookies' = withTokens(finalCookies, r)
       /\ cookieJar' = withTokens(cookieJar, r)
  /\ UNCHANGED <<rootReceived, targetReceived, rootIdentity, clientIdResponse>>
  /\ UNCHANGED notCookie

CookieNext ==
  \/ RootCookies
  \/ SetRootCookies
  \/ CreateClientId
  \/ VisitTarget
  \/ GenerateCombined
  \/ SetBfa
  \/ TargetCombined
  \/ SetTargetCookies
  \/ RegisterCookies

----------------------------------------------------------------------------
(* encodePayload of src/src/utils/collectPayload.js (CodecSpec) *)

\* the longest argument of the model, in UTF-16 code units
MaxChars == 6

\* the code units an argument is made of: 'a', U+00E9 (2 bytes in UTF-8)
\* and U+20AC (3 bytes); no surrogates, for which encodeURIComponent throws
\* or builds a 4-byte sequence
Chars == {97, 233, 8364}

Texts == UNION {[1..k -> Chars] : k \in 0..MaxChars}

\* two long arguments: one letter 40 times (matches that grow), and the
\* code units 1..129 (131 bytes, no two equal triples) twice, then U+00C8
\* and 1, 2, 3 (a literal run of more than 127 bytes, a match of 130 bytes
\* and a match whose source lies more than 127 bytes back)
LongTexts ==
  { [k \in 1..40 |-> 97],
    [k \in 1..262 |-> IF k <= 129 THEN k
                      ELSE IF k <= 258 THEN k - 129
                      ELSE IF k = 259 THEN 200 ELSE k - 259] }

\* let e = 16384: the step of the chunk loop and the reach of a match
ChunkSize == 16384

\* the multiplier of calculateHash
HashMultiplier == 16777619

\* t = "ABC...XYZabc...xyz0123456789-_"
Alphabet ==
  <<"A", "B", "C", "D", "E", "F", "G", "H", "I", "J", "K", "L", "M",
    "N", "O", "P", "Q", "R", "S", "T", "U", "V", "W", "X", "Y", "Z",
    "a", "b", "c", "d", "e", "f", "g", "h", "i", "j", "k", "l", "m",
    "n", "o", "p", "q", "r", "s", "t", "u", "v", "w", "x", "y", "z",
    "0", "1", "2", "3", "4", "5", "6", "7", "8", "9", "-", "_">>

\* String.prototype.charAt: '' outside the string
charAt(e) == IF e \in 0..(Len(Alphabet) - 1) THEN Alphabet[e + 1] ELSE ""

\* mask & x for a mask 2^k - 1, on two's complement integers
LowBits(mask, x) == x % (mask + 1)

RECURSIVE BitOr(_, _)
\* x | y on non-negative integers
BitOr(x, y) ==
  IF x = 0 THEN y
  ELSE IF y = 0 THEN x
  ELSE (IF x % 2 = 1 \/ y % 2 = 1 THEN 1 ELSE 0)
         + 2 * BitOr(x \div 2, y \div 2)

RECURSIVE BitXor(_, _)
\* x ^ y on non-negative integers
BitXor(x, y) ==
  IF x = 0 THEN y
  ELSE IF y = 0 THEN x
  ELSE (IF x % 2 # y % 2 THEN 1 ELSE 0) + 2 * BitXor(x \div 2, y \div 2)

getMin(x, y) == IF x <= y THEN x ELSE y

\* unescape(encodeURIComponent(i)): the UTF-8 bytes of a code unit
utf8(cp) ==
  IF cp < 128 THEN <<cp>>
  ELSE IF cp < 2048 THEN <<192 + (cp \div 64), 128 + (cp % 64)>>
  ELSE <<224 + (cp \div 4096), 128 + ((cp \div 64) % 64), 128 + (cp % 64)>>

RECURSIVE utf8Bytes(_)
utf8Bytes(str) ==
  IF str = <<>> THEN <<>>
  ELSE IF Len(str) = 1 THEN utf8(str[1])
  ELSE LET half == Len(str) \div 2
       IN  utf8Bytes(SubSeq(str, 1, half))
             \o utf8Bytes(SubSeq(str, half + 1, Len(str)))

\* writeChar(e): d.push(t.charAt(e)); w records the values it was given
writeChar(st, e) ==
  [st EXCEPT !.d = Append(@, charAt(e)), !.w = Append(@, e)]

encodeByte_Mut(st, e) ==
  LET l == LowBits(255, e)
      c == st.c + 2
      t == BitOr(st.l * 2^(6 - st.c), l \div 2^c)
      first == writeChar([st EXCEPT !.l = l, !.c = c, !.fed = Append(@, e)], t)
  IN  IF c >= 6
      THEN writeChar([first EXCEPT !.c = c - 6], LowBits(63, l \div 2^(c - 6)))
      ELSE first

\* encodeByte(e): 8 bits in, 6 bits out per character; l holds the last
\* byte, c the number of its bits not yet written; fed records the values
\* it was given
encodeByte(st, e) ==
  LET l == LowBits(255, e)
      c == st.c + 2
      t == BitOr(st.l * 2^(6 - st.c), l \div 2^c)
      first == writeChar([st EXCEPT !.l = l, !.c = c, !.fed = Append(@, e)],
                         LowBits(63, t))
  IN  IF c >= 6
      THEN writeChar([first EXCEPT !.c = c - 6], LowBits(63, l \div 2^(c - 6)))
      ELSE first

RECURSIVE encodeBytes(_, _)
\* encodeByte for each byte of a sequence
encodeBytes(st, bytes) ==
  IF bytes = <<>> THEN st
  ELSE IF Len(bytes) = 1 THEN encodeByte(st, bytes[1])
  ELSE LET half == Len(bytes) \div 2
       IN  encodeBytes(encodeBytes(st, SubSeq(bytes, 1, half)),
                       SubSeq(bytes, half + 1, Len(bytes)))

\* a token of the output, noted when its first byte is about to be given
\* to encodeByte: the input position it starts at, the input bytes it
\* stands for, its distance field (matches) and its place in the output
Token(kind, pos, len, dist, st) ==
  [kind |-> kind, pos |-> pos, len |-> len, dist |-> dist,
   first |-> Len(st.fed) + 1]

RECURSIVE literalRuns_Mut(_, _)
literalRuns_Mut(st, e) ==
  IF e >= st.a THEN st
  ELSE LET t == getMin(127, st.a - e)
           run == [st EXCEPT !.tok = Append(@, Token("literal", e, t, 0, st))]
       IN  literalRuns_Mut(encodeBytes(encodeByte(run, LowBits(255, t)),
                                       SubSeq(st.i, e + 1, getMin(st.a, e + t))),
                           e + 127)

RECURSIVE literalRuns(_, _)
\* the loop of encodeLiterals: runs of at most 127 bytes, each behind the
\* byte 255 & -t
literalRuns(st, e) ==
  IF e >= st.a THEN st
  ELSE LET t == getMin(127, st.a - e)
           run == [st EXCEPT !.tok = Append(@, Token("literal", e, t, 0, st))]
       IN  literalRuns(encodeBytes(encodeByte(run, LowBits(255, 0 - t)),
                                   SubSeq(st.i, e + 1, getMin(st.a, e + t))),
                       e + 127)

encodeLiterals_Mut(st) == literalRuns(st, st.s + 1)

encodeLiterals(st) == literalRuns(st, st.s)

\* calculateHash(): e = 0; for the 3 bytes at a: e *= 16777619, e ^= byte;
\* return 16383 & e. e is a double and ^ works on its value modulo 2^32 as a
\* signed integer. After two bytes e is the signed 32-bit integer with top
\* byte b0 and low 24 bits (b0 * 403) ^ b1 (16777619 = 2^24 + 403); the third
\* product has a magnitude below 2^56 and is rounded to 53 significant
\* bits, ties to even, before the last ^. Only its low 14 bits are used.
calculateHash(st) ==
  LET b0 == st.i[st.a + 1]
      b1 == st.i[st.a + 2]
      b2 == st.i[st.a + 3]
      small == HashMultiplier % 16777216
      low == BitXor(b0 * small, b1)
      negative == b0 >= 128
      m == IF negative THEN (255 - b0) * 16777216 + (16777216 - low)
           ELSE b0 * 16777216 + low
      low16 == ((m % 65536) * small) % 65536
      \* m * 16777619 >= 2^55, 2^54, 2^53
      step == IF m >= 2147432066 THEN 8
              ELSE IF m >= 1073716033 THEN 4
              ELSE IF m >= 536858017 THEN 2
              ELSE 1
      rest == low16 % step
      odd == (low16 \div step) % 2 = 1
      rounded == IF 2 * rest < step THEN low16 - rest
                 ELSE IF 2 * rest > step THEN low16 - rest + step
                 ELSE IF odd THEN low16 - rest + step
                 ELSE low16 - rest
      bits == IF negative THEN (0 - rounded) % 16384 ELSE rounded % 16384
  IN  LowBits(16383, BitXor(bits, b2))

RECURSIVE matchRun(_, _, _, _)
\* the loop of findMatchLength: t runs from the candidate, n from a
matchRun(st, t, n, r) ==
  IF t < r /\ n < Len(st.i) /\ st.i[t + 1] = st.i[n + 1]
  THEN matchRun(st, t + 1, n + 1, r)
  ELSE t

findMatchLength(st, e) == matchRun(st, e, st.a, getMin(e + 130, st.a)) - e

\* n[s] - 1 and r[o - u]: NaN for an index never written, which fails
\* o >= 0 as -1 does
chainHead(st, h) == IF h \in DOMAIN st.n THEN st.n[h] - 1 ELSE 0 - 1

chainPrev(st, o) == IF (o - st.u) \in DOMAIN st.r THEN st.r[o - st.u] ELSE 0 - 1

RECURSIVE searchChain_Mut(_, _, _, _)
searchChain_Mut(st, o, t, i) ==
  IF t # 130 /\ o >= 0 /\ o >= st.a - ChunkSize
  THEN LET e == findMatchLength(st, o)
       IN  IF e >= 3 /\ e >= t
           THEN searchChain_Mut(st, chainPrev(st, o), e, st.a - o - e)
           ELSE searchChain_Mut(st, chainPrev(st, o), t, i)
  ELSE [t |-> t, i |-> i]

RECURSIVE searchChain(_, _, _, _)
\* for (; 130 != t && o >= 0 && o >= a - e; ): the longest match of at least
\* 3 bytes among the earlier positions with the same hash; i is its offset
searchChain(st, o, t, i) ==
  IF t # 130 /\ o >= 0 /\ o >= st.a - ChunkSize
  THEN LET e == findMatchLength(st, o)
       IN  IF e >= 3 /\ e > t
           THEN searchChain(st, chainPrev(st, o), e, st.a - o - e)
           ELSE searchChain(st, chainPrev(st, o), t, i)
  ELSE [t |-> t, i |-> i]

RECURSIVE encodeOffset_Mut(_, _)
encodeOffset_Mut(st, i) ==
  IF i > 127
  THEN encodeOffset_Mut(encodeByte(st, BitOr(LowBits(127, i), 128)), i \div 256)
  ELSE encodeByte(st, i)

RECURSIVE encodeOffset(_, _)
\* for (; i > 127; ) encodeByte(127 & i | 128), i >>= 7;  encodeByte(i)
encodeOffset(st, i) ==
  IF i > 127
  THEN encodeOffset(encodeByte(st, BitOr(LowBits(127, i), 128)), i \div 128)
  ELSE encodeByte(st, i)

emitMatch_Mut(st, t, i) ==
  encodeOffset(encodeByte([st EXCEPT
                             !.tok = Append(@, Token("match", st.a, t, i, st))],
                          t),
               i)

\* encodeByte(t - 3); for (; i > 127; ) ...; encodeByte(i): the token of a
\* match of t bytes with the distance field i
emitMatch(st, t, i) ==
  encodeOffset(encodeByte([st EXCEPT
                             !.tok = Append(@, Token("match", st.a, t, i, st))],
                          t - 3),
               i)

finish_Mut(st) ==
  IF st.c = 2 THEN writeChar(st, LowBits(3, st.l))
  ELSE IF st.c = 4 THEN writeChar(st, LowBits(15, st.l))
  ELSE st

\* 2 == c ? writeChar(l << 4 & 63) : 4 == c && writeChar(l << 2 & 63)
finish(st) ==
  IF st.c = 2 THEN writeChar(st, LowBits(63, st.l * 16))
  ELSE IF st.c = 4 THEN writeChar(st, LowBits(63, st.l * 4))
  ELSE st

\* the locals of the inner function before encodeByte(19); tok and srch
\* record the tokens emitted and the outcome of every chain walk
Locals(bytes) ==
  [i |-> bytes, n |-> <<>>, r |-> <<>>, s |-> 0 - 1, o |-> 0, a |-> 0,
   l |-> 0, c |-> 0, d |-> <<>>, w |-> <<>>, fed |-> <<>>, u |-> 0,
   tok |-> <<>>, srch |-> <<>>]

CodecInit ==
  /\ cStep = "start"
  /\ text \in Texts \cup LongTexts
  /\ enc = Locals(<<>>)
  /\ returned = <<>>
  /\ IdleNotCodec

EncodeStart_Mut ==
  /\ cStep = "start"
  /\ cStep' = "chunk"
  /\ enc' = encodeByte([enc EXCEPT !.i = utf8Bytes(text), !.a = 0, !.o = 0,
                                   !.s = 0 - 1, !.fed = <<>>, !.w = <<>>,
                                   !.tok = <<>>, !.srch = <<>>], 19)
  /\ UNCHANGED <<text, returned>>
  /\ UNCHANGED notCodec

\* the outer function: the UTF-8 bytes of the argument; then the inner
\* function with its locals declared anew, and encodeByte(19)
EncodeStart ==
  /\ cStep = "start"
  /\ cStep' = "chunk"
  /\ enc' = encodeByte(Locals(utf8Bytes(text)), 19)
  /\ UNCHANGED <<text, returned>>
  /\ UNCHANGED notCodec

\* One turn of the loop of processChunk. An argument of at most MaxChars
\* code units is shorter than 32768 bytes, so the chunk loop runs at most
\* once, with u = 0 and t = i.length
ProcessPosition ==
  /\ cStep = "chunk"
  /\ enc.a < Len(enc.i)
  /\ LET t == getMin(enc.u + 2 * ChunkSize, Len(enc.i))
         l == getMin(t, Len(enc.i) - 3 + 1)
         hashed == enc.a < l
         s == IF hashed THEN calculateHash(enc) ELSE 0
         found == IF hashed /\ enc.a >= enc.o
                  THEN searchChain(enc, chainHead(enc, s), 0, 0)
                  ELSE [t |-> 0, i |-> 0]
         tables == IF hashed
                   THEN [enc EXCEPT
                           !.srch = IF enc.a >= enc.o
                                    THEN Append(@, [pos |-> enc.a,
                                                    t |-> found.t,
                                                    i |-> found.i])
                                    ELSE @,
                           !.r = [k \in DOMAIN enc.r \cup {enc.a - enc.u} |->
                                    IF k = enc.a - enc.u THEN chainHead(enc, s)
                                    ELSE enc.r[k]],
                           !.n = [k \in DOMAIN enc.n \cup {s} |->
                                    IF k = s THEN enc.a + 1 ELSE enc.n[k]]]
                   ELSE enc
         flushed == IF tables.s # 0 - 1
                    THEN [encodeLiterals(tables) EXCEPT !.s = 0 - 1]
                    ELSE tables
         after ==
           IF found.t >= 3
           THEN emitMatch([flushed EXCEPT !.o = enc.a + found.t],
                          found.t, found.i)
           ELSE IF enc.a >= enc.o /\ enc.s = 0 - 1
                THEN [tables EXCEPT !.s = enc.a]
                ELSE tables
     IN  enc' = [after EXCEPT !.a = enc.a + 1]
  /\ UNCHANGED <<cStep, text, returned>>
  /\ UNCHANGED notCodec

\* after the chunk loop: the pending literals, then the bits of l not yet
\* written; the result is d.join("")
EncodeEnd ==
  /\ cStep = "chunk"
  /\ enc.a >= Len(enc.i)
  /\ cStep' = "done"
  /\ LET flushed == IF enc.s # 0 - 1 THEN encodeLiterals(enc) ELSE enc
     IN  enc' = finish(flushed)
  /\ returned' = Append(returned, [arg |-> text, out |-> enc'.d])
  /\ UNCHANGED text
  /\ UNCHANGED notCodec

CodecNext ==
  \/ EncodeStart
  \/ ProcessPosition
  \/ EncodeEnd

\* the most calls of encodePayload in one behaviour of PureSpec
MaxCalls == 3

\* the arguments of these calls: every string of at most 2 code units
PureTexts == UNION {[1..k -> Chars] : k \in 0..2}

PureInit ==
  /\ cStep = "start"
  /\ text \in PureTexts
  /\ enc = Locals(<<>>)
  /\ returned = <<>>
  /\ IdleNotCodec

\* encodePayload is called again: the closure is the same, its variables e
\* and t are never assigned; what the last call left in its locals is still
\* there until the inner function declares its own
NextCall ==
  /\ cStep = "done"
  /\ Len(returned) < MaxCalls
  /\ cStep' = "start"
  /\ text' \in PureTexts
  /\ UNCHANGED <<enc, returned>>
  /\ UNCHANGED notCodec

PureNext ==
  \/ EncodeStart
  \/ ProcessPosition
  \/ EncodeEnd
  \/ NextCall

\* The packer alone (PackSpec): encodeByte is given any bytes, then the
\* pending bits are flushed as at the end of the inner function

\* the most bytes given to encodeByte in one behaviour of PackSpec
MaxFed == 4

\* the bytes given to encodeByte: the marker, the least and greatest byte,
\* both sides of the sign bit, and alternating bits
ByteSamples == {0, 1, 19, 127, 128, 170, 255}

PackInit ==
  /\ cStep = "feed"
  /\ text = <<>>
  /\ enc = Locals(<<>>)
  /\ returned = <<>>
  /\ IdleNotCodec

\* encodeByte(e)
FeedByte ==
  /\ cStep = "feed"
  /\ Len(enc.fed) < MaxFed
  /\ \E e \in ByteSamples : enc' = encodeByte(enc, e)
  /\ UNCHANGED <<cStep, text, returned>>
  /\ UNCHANGED notCodec

\* the flush of the pending bits, after the last byte
Finalize ==
  /\ cStep = "feed"
  /\ cStep' = "done"
  /\ enc' = finish(enc)
  /\ UNCHANGED <<text, returned>>
  /\ UNCHANGED notCodec

PackNext ==
  \/ FeedByte
  \/ Finalize

\* The match token alone (VarintSpec): the statements of processChunk that
\* emit a match, for every length and every distance field up to the window

\* the lengths of a match: the least, the next and the greatest
MatchLengths == {3, 4, 130}

VarintInit ==
  /\ cStep = "match"
  /\ text = <<>>
  /\ enc = Locals(<<>>)
  /\ returned = <<>>
  /\ IdleNotCodec

\* encodeByte(t - 3); for (; i > 127; ) encodeByte(127 & i | 128), i >>= 7;
\* encodeByte(i)
EmitMatch ==
  /\ cStep = "match"
  /\ cStep' = "done"
  /\ \E t \in MatchLengths, i \in 0..ChunkSize : enc' = emitMatch(enc, t, i)
  /\ UNCHANGED <<text, returned>>
  /\ UNCHANGED notCodec

VarintNext == EmitMatch

----------------------------------------------------------------------------
(* parseTripUrl (ParseSpec) *)

\* url.searchParams.get(name): null when the query has no such parameter,
\* else its value, which may be ''
NoParam(v) == [present |-> FALSE, value |-> v]

Param(v) == [present |-> TRUE, value |-> v]

\* the URLs new URL() accepts: the labels of the hostname (lower case, as
\* url.hostname gives them) and the parameters of the query. The value of
\* quantity is the sequence of its characters, that of locale a sequence of
\* pieces, every other value one sample string
UrlSamples ==
  [hostname : {<<"id", "trip", "com">>, <<"sg", "trip", "com">>,
               <<"www", "trip", "com">>},
   dcity : {NoParam(""), Param("jkt")},
   rdate : {NoParam(""), Param("2026-02-03")},
   triptype : {NoParam(""), Param(""), Param("ow"), Param("RT")},
   class : {NoParam(""), Param("c")},
   quantity : {NoParam(<<>>), Param(<<>>), Param(<<"2">>), Param(<<"1", "0">>),
               Param(<<"2", "x">>), Param(<<"a", "b", "c">>)},
   locale : {NoParam(<<>>), Param(<<"en-SG">>)},
   curr : {NoParam(""), Param("VND")}]

Digits == <<"0", "1", "2", "3", "4", "5", "6", "7", "8", "9">>

IsDigit(ch) == \E k \in 1..Len(Digits) : Digits[k] = ch

DigitValue(ch) == (CHOOSE k \in 1..Len(Digits) : Digits[k] = ch) - 1

RECURSIVE LeadingDigits(_, _)
\* the value of the longest prefix of digits, after the digits read so far
LeadingDigits(str, acc) ==
  IF str # <<>> /\ IsDigit(Head(str))
  THEN LeadingDigits(Tail(str), 10 * acc + DigitValue(Head(str)))
  ELSE acc

\* Number: a number n, or NaN
Num(n) == [nan |-> FALSE, n |-> n]

NaN == [nan |-> TRUE, n |-> 0]

RECURSIVE parseInt(_)
\* parseInt(str, 10): white space and a sign are skipped, then the leading
\* digits are read; NaN when there is none
parseInt(str) ==
  IF str # <<>> /\ Head(str) = " " THEN parseInt(Tail(str))
  ELSE LET negative == str # <<>> /\ Head(str) = "-"
           signed == str # <<>> /\ Head(str) \in {"-", "+"}
           rest == IF signed THEN Tail(str) ELSE str
       IN  IF rest = <<>> \/ ~IsDigit(Head(rest)) THEN NaN
           ELSE IF negative THEN Num(0 - LeadingDigits(rest, 0))
           ELSE Num(LeadingDigits(rest, 0))

\* searchParams.get(name) || default: null and '' are falsy
OrElse(v, default) ==
  IF v.present /\ v.value # "" THEN v.value ELSE default

\* the same for a value written as a sequence
OrElseSeq(v, default) ==
  IF v.present /\ v.value # <<>> THEN v.value ELSE default

\* parseTripUrl(urlString), after new URL(urlString) has accepted it.
\* undefined (rdate) is written '', as both are falsy where the value is read
parseTripUrl(u) ==
  LET hostParts == u.hostname
      region == IF hostParts[1] # "" THEN hostParts[1] ELSE "id"
  IN  [hostname |-> u.hostname,
       region |-> region,
       params |->
         [dcity |-> OrElse(u.dcity, ""),
          rdate |-> OrElse(u.rdate, ""),
          triptype |-> OrElse(u.triptype, "rt"),
          class |-> OrElse(u.class, "y"),
          quantity |-> parseInt(OrElseSeq(u.quantity, <<"1">>)),
          locale |-> OrElseSeq(u.locale, <<"en-", toUpperCase(region)>>),
          curr |-> OrElse(u.curr, IF region = "id" THEN "IDR" ELSE "USD")]]

NotParsed == [hostname |-> <<>>, region |-> "", params |-> <<>>]

ParseInit ==
  /\ urlString \in UrlSamples
  /\ parsed = NotParsed
  /\ IdleNotParse

ParseTripUrl ==
  /\ parsed = NotParsed
  /\ parsed' = parseTripUrl(urlString)
  /\ UNCHANGED urlString
  /\ UNCHANGED notParse

ParseNext ==
  \/ ParseTripUrl

----------------------------------------------------------------------------
(* Specifications *)

\* one scrape operation of one of the three handlers
Spec == Init /\ [][Next]_allVars

\* one scrape operation under fairness: the transport settles every call in
\* flight and the event loop runs every continuation that is ready, so a step
\* that stays possible is eventually taken
LiveSpec == Init /\ [][Next]_allVars /\ WF_allVars(Next)

\* two concurrent operations and the places their writes land in
PairSpec == PairInit /\ [][PairNext]_allVars

\* the payload builders of one operation
BuildSpec == BuildInit /\ [][BuildNext]_allVars

\* the cookie writes of one operation's bootstrap
CookieSpec == CookieInit /\ [][CookieNext]_allVars

\* one call of parseTripUrl
ParseSpec == ParseInit /\ [][ParseNext]_allVars

\* one call of encodePayload
CodecSpec == CodecInit /\ [][CodecNext]_allVars

\* several calls of encodePayload, one after the other
PureSpec == PureInit /\ [][PureNext]_allVars

PackSpec == PackInit /\ [][PackNext]_allVars

VarintSpec == VarintInit /\ [][VarintNext]_allVars

----------------------------------------------------------------------------
(* Properties *)

Done == pc = "done"

\* the names under which a message may refer to the main search step
MainSearchNames == {"FlightListSearchSSE", "FlightListSearch"}

\* the document decoded from the main search response, once it resolved
SearchDoc == DecodeSearchBody(handler, searchResp.body)

\* the stages of one operation, in order
Stages ==
  << {"rootGet"}, {"createClientId"}, {"targetGet"}, StageASet,
     {"getRouteInfo2"}, StageCSet, {"fingerprint"}, {"risk"} >>

\* C1: when the main search call of Stage C rejects, no response with
\* success=true is ever sent, and the response the operation ends with has
\* success=false and an error message that names the main search step.
C1_FatalPath ==
  call["flightSearch"] = "fail" =>
    /\ \A i \in 1..Len(res) : res[i].success # "true"
    /\ Done => /\ Len(res) = 1
               /\ res[1].success = "false"
               /\ \E n \in MainSearchNames : Names(res[1].error, n)

C1_Witness ==
  /\ Done
  /\ handler = "cycletls"
  /\ call["flightSearch"] = "fail"
  /\ call["ubtCollect"] = "ok"
  /\ Len(res) = 1

\* C2: when the collect call rejects and the main search call resolves, the
\* operation ends with success=true, and the collect failure is recorded as a
\* failed outcome under the collect step's name.
C2_CollectFailureTolerated ==
  (Done /\ call["ubtCollect"] = "fail" /\ call["flightSearch"] = "ok") =>
    /\ Len(res) = 1
    /\ res[1].success = "true"
    /\ \E i \in 1..Len(results) :
         results[i].name = "UBT collect" /\ ~results[i].success

C2_Witness ==
  /\ Done
  /\ call["ubtCollect"] = "fail"
  /\ call["flightSearch"] = "ok"
  /\ Len(res) = 1
  /\ res[1].success = "true"

\* C3: the Stage B route-info call is started only when all four Stage A
\* calls have settled (resolved or rejected), in both handlers.
C3_StageBAfterStageA ==
  call["getRouteInfo2"] # "idle" => \A c \in StageASet : call[c] \in Settled

C3_Witness ==
  /\ handler = "grpc"
  /\ call["getRouteInfo2"] = "inflight"
  /\ call["getAppConfig"] = "fail"
  /\ call["getHeaderInfo"] = "ok"
  /\ call["saveLogInfo"] = "fail"
  /\ call["getRouteInfo1"] = "ok"

\* C4: whenever a call of some stage has been started, every call of every
\* earlier stage has settled.
C4_StageOrdering ==
  \A i \in 1..Len(Stages) : \A j \in 1..Len(Stages) :
    (i < j /\ \E c \in Stages[j] : call[c] # "idle")
      => \A c \in Stages[i] : call[c] \in Settled

C4_Witness ==
  /\ handler = "cycletls"
  /\ call["risk"] = "inflight"
  /\ call["ubtCollect"] = "fail"
  /\ call["fingerprint"] = "fail"

\* C5: the operation is past Stage C (Stage D started, or a response sent
\* after Stage C began) only when both members have settled, and then the
\* results array holds one outcome per member, in member order, whose success
\* flag is that member's outcome.
C5_StageCWaitForAll ==
  (call["fingerprint"] # "idle"
     \/ (Len(res) > 0 /\ \E c \in StageCSet : call[c] # "idle")) =>
    /\ \A c \in StageCSet : call[c] \in Settled
    /\ Len(results) = Len(concurrentCalls)
    /\ \A i \in 1..Len(concurrentCalls) :
         results[i].success = (call[concurrentCalls[i]] = "ok")

C5_Witness ==
  /\ pc = "stageD"
  /\ handler = "grpc"
  /\ call["flightSearch"] = "fail"
  /\ call["ubtCollect"] = "ok"
  /\ Len(results) = 2

\* the main search call resolved with a status other than 200 or with a body
\* that does not parse
ProtocolMismatch ==
  /\ call["flightSearch"] = "ok"
  /\ (searchResp.statusCode # 200 \/ ~SearchDoc.valid)

BlockedResponse ==
  /\ call["flightSearch"] = "ok"
  /\ SearchDoc.valid
  /\ SearchDoc.rc = 1
  /\ SearchDoc.pid = ""

\* the fields of the JSON object a handler responds with
ResultFields == {"http", "success", "statusCode", "data", "productId", "error"}

C9_OraclesBestEffort ==
  /\ (oracle.signature \in {"throw", "empty"} /\ call["flightSearch"] # "idle")
       => "token" \notin DOMAIN searchHeaders
  /\ (oracle.c_sign \in {"throw", "empty"} /\ call["flightSearch"] # "idle")
       => "w-payload-source" \notin DOMAIN searchHeaders
  /\ (Done /\ (oracle.signature \in {"throw", "empty"}
                 \/ oracle.c_sign \in {"throw", "empty"}))
       => call["flightSearch"] # "idle"

\* the best-effort calls of Stages A, B, D and E
BestEffort == StageASet \cup {"getRouteInfo2", "fingerprint", "risk"}

\* C10: once the main search call has settled, the response the operation
\* ends with has a success flag, status code and data fixed by the main
\* search outcome alone, whatever the outcomes of the Stage A, B, D and E
\* calls; every one of those calls was made, the Stage E call exactly when
\* the main search resolved with a body that parses.
C10_BestEffortNeverChangesResult ==
  (Done /\ call["flightSearch"] \in Settled) =>
    /\ Len(res) = 1
    /\ res[1].success = (IF call["flightSearch"] = "ok" THEN "true" ELSE "false")
    /\ res[1].statusCode =
         (IF call["flightSearch"] = "ok" THEN searchResp.statusCode ELSE 0)
    /\ res[1].data =
         (IF call["flightSearch"] = "fail" THEN NoData
          ELSE IF SearchDoc.valid
               THEN [kind |-> "json", doc |-> SearchDoc, raw |-> <<>>]
               ELSE [kind |-> "raw", doc |-> BadDoc, raw |-> searchResp.body])
    /\ \A c \in BestEffort \ {"risk"} : call[c] \in Settled
    /\ call["risk"] # "idle" <=> (call["flightSearch"] = "ok" /\ SearchDoc.valid)

C10_Witness ==
  /\ Done
  /\ \A c \in BestEffort : call[c] = "fail"
  /\ call["flightSearch"] = "ok"
  /\ Len(res) = 1
  /\ res[1].success = "true"
  /\ res[1].data.kind = "json"

\* the request fails validation: no url, a url new URL() rejects, or (sort/
\* refine) no productId
ValidationError == req \in {"nourl", "badurl", "nopid"}

\* C11: when the request has no url, or a url that cannot be parsed, or (in
\* the sort/refine operation) no product id, the first step of the handler
\* sends a failure response and the operation ends; no session.get or
\* session.post is ever issued in that operation.
C11_ValidationNoNetwork ==
  ValidationError =>
    /\ \A c \in Calls : netIssued[c] = 0 /\ call[c] = "idle"
    /\ pc \in {"start", "done"}
    /\ Done => /\ Len(res) = 1
               /\ res[1].success # "true"
               /\ res[1].http \in {400, 500}
               /\ res[1].error # <<>>

C11_Witness ==
  /\ Done
  /\ handler = "sort"
  /\ req = "nopid"
  /\ Len(res) = 1
  /\ res[1].http = 400

\* C12: every orchestration step is issued at most once: a call goes on the
\* transport at most once, a call that has settled (resolved or rejected) is
\* never started again, and the two route-info calls are two steps, each
\* under the same rule.
C12_AtMostOnce ==
  [][\A c \in Calls :
       /\ netIssued'[c] <= 1
       /\ call[c] \in Settled => call'[c] = call[c]
       /\ call[c] = "inflight" => call'[c] # "idle"]_vars

C12_Witness ==
  /\ Done
  /\ handler = "cycletls"
  /\ call["getAppConfig"] = "fail"
  /\ call["getRouteInfo1"] = "fail"
  /\ netIssued["getRouteInfo1"] = 1
  /\ call["getRouteInfo2"] = "ok"
  /\ netIssued["getRouteInfo2"] = 1
  /\ call["flightSearch"] = "fail"
  /\ netIssued["flightSearch"] = 1

\* C13 (as claimed): two concurrent operations share no mutable state: while
\* an operation is running, every place it has written (session cookies,
\* cookie record, the user agent set on the signing module, the files it
\* wrote) still holds its own write; no write of the other operation lands
\* there.
C13_NoSharedMutableState ==
  \A o \in Ops : \A l \in wrote[o] :
    opPc[o] # "done" => store[l] = o

\* the builders that have returned, by the position of the handler
TokenBuilt == bStep \notin {"none", "generateUUID", "buildTokenPayload"}

SearchBuilt == TokenBuilt /\ bStep \notin {"buildFlightSearchPayload", "threw"}

UbtStarted == bStep \in {"ubtList", "done"} /\ productId = ""

\* the search and token payloads built so far
BuiltPayloads ==
  (IF TokenBuilt THEN {tokenPayload} ELSE {})
    \cup (IF SearchBuilt THEN {payload} ELSE {})

\* C14 (as claimed): the Flt_BatchId carried in the telemetry payload equals
\* the Flt_BatchId carried in the main search payload of the same operation
\* (one batch id, generated once).
C14_SharedBatchId ==
  UbtStarted =>
    /\ ubt.Flt_BatchId = payload.head.extension.Flt_BatchId
    /\ ubt.Flt_BatchId = fltBatchId

RoundTripWithReturn ==
  params.triptype \in {"rt", "RT"} /\ params.rdate # ""

\* C16: the search payload and the token payload hold exactly 2 journey legs
\* when the trip type is round trip and a return date is set, leg 2 being leg
\* 1 with departure and arrival swapped and the return date as its date; they
\* hold exactly 1 leg otherwise (one way, or no return date).
C16_JourneyLegs ==
  \A pl \in BuiltPayloads :
    LET legs == pl.searchCriteria.journeyInfoTypes
    IN  IF RoundTripWithReturn
        THEN /\ Len(legs) = 2
             /\ legs[1].departDate = params.ddate
             /\ legs[2].departDate = params.rdate
             /\ legs[2].departCode = legs[1].arriveCode
             /\ legs[2].arriveCode = legs[1].departCode
             /\ legs[2].departAirport = legs[1].arriveAirport
             /\ legs[2].arriveAirport = legs[1].departAirport
        ELSE Len(legs) = 1

C16_Witness ==
  /\ SearchBuilt
  /\ params.triptype = "RT"
  /\ params.rdate # ""
  /\ params.dairport # ""
  /\ params.aairport = ""
  /\ Len(payload.searchCriteria.journeyInfoTypes) = 2
  /\ Len(tokenPayload.searchCriteria.journeyInfoTypes) = 2

\* C17: in every leg of the search and token payloads, a city code and the
\* airport code of the same endpoint are never both non-empty; when the
\* airport parameter of an endpoint is present the endpoint's city code is
\* empty, in the outbound leg and in the swapped return leg.
C17_AirportSuppressesCity ==
  \A pl \in BuiltPayloads :
    LET legs == pl.searchCriteria.journeyInfoTypes
    IN  /\ \A i \in 1..Len(legs) :
             /\ ~(legs[i].departCode # "" /\ legs[i].departAirport # "")
             /\ ~(legs[i].arriveCode # "" /\ legs[i].arriveAirport # "")
        /\ params.dairport # "" =>
             /\ legs[1].departCode = ""
             /\ Len(legs) = 2 => legs[2].arriveCode = ""
        /\ params.aairport # "" =>
             /\ legs[1].arriveCode = ""
             /\ Len(legs) = 2 => legs[2].departCode = ""

C17_Witness ==
  /\ SearchBuilt
  /\ params.dairport # ""
  /\ params.aairport # ""
  /\ Len(payload.searchCriteria.journeyInfoTypes) = 2
  /\ payload.searchCriteria.journeyInfoTypes[2].departAirport = "DMK"
  /\ payload.searchCriteria.journeyInfoTypes[2].departCode = ""

\* C18: in the ubtList of a telemetry payload the sequence numbers are
\* strictly increasing in list order and every item's timestamp is at most
\* the payload's sendTs, for every outcome of the random draws.
C18_UbtSequenceAndTimestamps ==
  UbtStarted =>
    /\ \A i \in 1..(Len(ubt.seqs) - 1) : ubt.seqs[i] < ubt.seqs[i + 1]
    /\ Len(ubt.seqs) > 0 => ubt.ts <= ubt.sendTs

C18_Witness ==
  /\ bStep = "done"
  /\ productId = ""
  /\ Len(ubt.seqs) = Len(Part1Offsets) + Len(Part2Items)
  /\ ubt.seqs[Len(Part1Offsets)] = 44
  /\ ubt.seqs[Len(Part1Offsets) + 1] = 151
  /\ ubt.ts = ubt.sendTs - 200000

\* C19: every builder call (token, search and w-payload-source payloads, the
\* route-info payload, the telemetry payload) leaves the parsed parameters,
\* the cookie record and the session's cookie jar as they were.
C19_BuildersLeaveSessionState ==
  [][params' = params /\ cookies' = cookies /\ jar' = jar]_buildVars

C19_Witness ==
  /\ bStep = "done"
  /\ productId = ""
  /\ cookies._combined.kind = "string"
  /\ cookies.transactionId = "tx-page"
  /\ payload.head.extension.flt_app_session_transactionId
       = GeneratedTransactionId
  /\ routeInfoPayload.Head.TransactionID = "tx-page"

\* the _combined cookie of a response carries the placeholder marker inside
\* its transaction id
MarkerInTransactionId(v) == v.present /\ includesNodejs(v.transactionId)

\* C15: whenever the _combined cookie of the root GET or of the target URL
\* GET carries the placeholder marker 'nodejs' inside its transaction id,
\* then at the end of the bootstrap neither the transaction id kept in the
\* session state nor the _combined value in the cookie jar contains 'nodejs'
C15_MarkerNormalised ==
  (kStep = "done" /\ (\/ MarkerInTransactionId(rootReceived)
                      \/ MarkerInTransactionId(targetReceived)))
    => /\ ~includesNodejs(finalCookies.transactionId)
       /\ ~combinedIncludesNodejs(cookieJar._combined)

\* C20: every character of the output of encodePayload is one of the 64
\* symbols A-Z a-z 0-9 - _ : every value passed to writeChar is in 0..63,
\* so that each call emits exactly one symbol, and nothing else (no
\* padding) is ever emitted
C20_OutputAlphabet ==
  /\ cStep = "none" \/ Len(enc.d) = Len(enc.w)
  /\ cStep # "none" =>
       \A j \in 1..Len(enc.d) :
         /\ enc.w[j] \in 0..63
         /\ \E k \in 1..Len(Alphabet) : enc.d[j] = Alphabet[k]

\* an argument with a multi-byte character has been encoded to the end,
\* with a literal run and a match in it
C20_Witness ==
  /\ cStep = "done"
  /\ enc.o > 0
  /\ \E j \in 1..Len(enc.i) : enc.i[j] >= 128
  /\ Len(enc.d) > 8

\* C21: for an input of 1 or 2 bytes the bytes given to encodeByte are the
\* marker byte 19, one control byte (-length) mod 256, then the input bytes
\* as they are; no match token is among them
C21_ShortInputIsOneLiteralRun ==
  (cStep = "done" /\ Len(enc.i) \in 1..2)
    => /\ enc.fed = <<19, (0 - Len(enc.i)) % 256>> \o enc.i
       /\ enc.o = 0

\* a 2-byte input (one 2-byte character or two ASCII characters) is encoded
C21_Witness ==
  /\ cStep = "done"
  /\ Len(enc.i) = 2
  /\ Len(enc.fed) = 4

\* C22: encodePayload is a pure function of its argument: two calls with
\* the same argument return the same result, whatever calls came before or
\* between them; nothing a call leaves in its tables, bit buffer or output
\* buffer reaches a later call
C22_PureFunction ==
  \A j \in 1..Len(returned) : \A k \in 1..Len(returned) :
    returned[j].arg = returned[k].arg => returned[j].out = returned[k].out

\* three calls have returned: the first and the third with the same
\* argument, which holds a match, the second with another one
C22_Witness ==
  /\ Len(returned) = 3
  /\ returned[1].arg = returned[3].arg
  /\ returned[2].arg # returned[1].arg
  /\ Len(returned[1].arg) = 2
  /\ enc.o > 0

RECURSIVE Numeral(_)
\* the decimal numeral of a natural number
Numeral(n) ==
  IF n < 10 THEN <<Digits[n + 1]>>
  ELSE Numeral(n \div 10) \o <<Digits[(n % 10) + 1]>>

\* the parameter is returned as it stands in the query
ReturnedUnchanged(name) ==
  urlString[name].present => parsed.params[name] = urlString[name].value

\* the defaults of region, locale, currency, trip type, cabin and adults,
\* each for a query without the parameter
ParseDefaults ==
  /\ parsed.region = urlString.hostname[1]
  /\ ~urlString.locale.present =>
       parsed.params.locale = <<"en-", toUpperCase(parsed.region)>>
  /\ ~urlString.curr.present =>
       parsed.params.curr = (IF parsed.region = "id" THEN "IDR" ELSE "USD")
  /\ ~urlString.triptype.present => parsed.params.triptype = "rt"
  /\ ~urlString.class.present => parsed.params.class = "y"
  /\ ~urlString.quantity.present => parsed.params.quantity = Num(1)

\* C23: parseTripUrl returns the first hostname label as region, for each
\* absent parameter its default (locale en-REGION, currency IDR for region
\* id and USD otherwise, trip type rt, cabin y, adults 1), and each present
\* parameter as it is given (adults: the number the text is the numeral of)
C23_ParseDefaultsAndPresent ==
  parsed # NotParsed =>
    /\ ParseDefaults
    /\ \A name \in {"dcity", "rdate", "triptype", "class", "locale", "curr"} :
         ReturnedUnchanged(name)
    /\ urlString.quantity.present =>
         /\ ~parsed.params.quantity.nan
         /\ parsed.params.quantity.n >= 0
         /\ Numeral(parsed.params.quantity.n) = urlString.quantity.value

\* the positions of the `data:`-prefixed lines of a body
DataLines(body) == {j \in 1..Len(body) : body[j].isData}

\* the whole body parsed as JSON
WholeBody(body) == IF Len(body) = 1 /\ ~body[1].isData THEN body[1].doc ELSE BadDoc

\* the `data` field of a success response whose decoder chose document doc
DataOf(doc, body) ==
  IF doc.valid THEN [kind |-> "json", doc |-> doc, raw |-> <<>>]
  ELSE [kind |-> "raw", doc |-> BadDoc, raw |-> body]

\* the operation has answered with a success response
Answered == pc = "done" /\ res # <<>> /\ res[Len(res)].success = "true"

C26_RiskCallAfterSearch ==
  /\ (pc = "done" /\ flightSearchResponse # NoResp) => netIssued["risk"] = 1
  /\ (pc # "none" /\ netIssued["risk"] > 0) =>
       /\ netIssued["risk"] = 1
       /\ call["flightSearch"] = "ok"
       /\ call["fingerprint"] \in Settled

\* the payload sent to the main search call and the payload that is signed
\* are both as they will be sent
PayloadsFinal ==
  bStep \in {"buildWPayloadSourcePayload", "callGetRouteInfo",
             "buildUbtPayload", "ubtList", "done"}

\* the caller supplied no sort spec
NoSortSpec == ~sortBody.sortType.given /\ ~sortBody.direction.given

\* C25 as stated: whenever the caller supplies no sort spec, the sort spec of
\* the search payload and of the signed token payload is direction = true,
\* orderBy = "Direct", in the sort/refine operation as in the initial search
C25_DefaultSortDirect ==
  (PayloadsFinal /\ NoSortSpec) =>
    /\ payload.sortInfoType = [direction |-> TRUE, orderBy |-> "Direct"]
    /\ tokenPayload.sortInfoType = [direction |-> TRUE, orderBy |-> "Direct"]

\* C25 amended: whenever the caller supplies no sort spec, the sort spec of
\* both payloads is direction = true with orderBy = "Direct" in an initial
\* search and orderBy = "Price" in a sort/refine operation
C25_DefaultSortPerVariant ==
  (PayloadsFinal /\ NoSortSpec) =>
    LET default == [direction |-> TRUE,
                    orderBy |-> IF productId = "" THEN "Direct" ELSE "Price"]
    IN  /\ payload.sortInfoType = default
        /\ tokenPayload.sortInfoType = default

\* a sort/refine request without a sort spec has both payloads built
C25_Witness ==
  /\ bStep = "done"
  /\ productId # ""
  /\ NoSortSpec
  /\ payload.sortInfoType.orderBy = "Price"

\* the bootstrap has made all its writes of transaction id, page id and
\* _combined
BootstrapDone == kStep \in {"register", "done"}

\* C27: at the end of the bootstrap the session state holds, for the
\* transaction id, the page id and the _combined cookie, the values of the
\* target URL response's _combined cookie whenever the response set one, and
\* the locally synthesized values (transaction id 1-mf-{ts}-WEB, default
\* page id) when it set none
C27_PageSpecificElseSynthesized ==
  BootstrapDone =>
    IF targetReceived.present
    THEN /\ finalCookies._combined \in
              {targetReceived, replaceInCombined(targetReceived)}
         /\ finalCookies.transactionId =
              replaceNodejs(targetReceived.transactionId)
         /\ finalCookies.pageId = targetReceived.pageId
    ELSE /\ finalCookies._combined = generateCombinedCookie
         /\ finalCookies.transactionId = generateCombinedCookie.transactionId
         /\ finalCookies.pageId = generateCombinedCookie.pageId

\* the client-id issuance call returned status 200 with a parsable body
\* that contains a ClientID
Issued(r) ==
  ~r.error /\ r.statusCode = 200 /\ r.parsable /\ r.ClientID # ""

\* C28: the client-id issuance step leaves, as GUID of the session state and
\* of the cookie jar, the issued ClientID when the call returned status 200
\* with a parsable body containing a ClientID, and the value GUID had after
\* the root visit in every other case; the handler goes on to the visit of
\* the target URL in all cases
C28_ClientIdOverwrite ==
  [][kStep = "clientId" =>
       /\ kStep' = "targetGet"
       /\ IF Issued(clientIdResponse')
          THEN /\ finalCookies'.GUID = clientIdResponse'.ClientID
               /\ cookieJar'.GUID = clientIdResponse'.ClientID
          ELSE /\ finalCookies'.GUID = finalCookies.GUID
               /\ cookieJar'.GUID = cookieJar.GUID]_cookieVars

\* the issued ClientID has replaced the GUID of the root response in the
\* session state and in the cookie jar when the target URL is visited
C28_Witness ==
  /\ kStep = "targetGet"
  /\ Issued(clientIdResponse)
  /\ rootIdentity.GUID = "guid-root"
  /\ finalCookies.GUID = "guid-issued"
  /\ cookieJar.GUID = "guid-issued"

\* the fields of a registration result: its data split on `|`, each field
\* trimmed; none when the call failed or the data is no string
Fields(r) ==
  IF r.error \/ ~r.string THEN <<>>
  ELSE [j \in 1..Len(split(r.data)) |-> trim(split(r.data)[j])]

\* the four anti-fingerprint tokens of a cookie record, in their order
Tokens(cookieRecord) ==
  <<cookieRecord._RGUID, cookieRecord._RF1, cookieRecord._RSG,
    cookieRecord._RDG>>

BfaSet == cookieJar._bfa # <<>>

\* C30: in the _bfa cookie set during the bootstrap the fifth field is the
\* fourth field plus exactly 20000, also when the clock advances while the
\* cookie is built; the second field is the session's visitor id (UBT_VID)
\* and the last field is the init page id of the generated _combined cookie
C30_BfaFields ==
  BfaSet =>
    /\ cookieJar._bfa[5] = cookieJar._bfa[4] + 20000
    /\ finalCookies.UBT_VID # "" => cookieJar._bfa[2] = finalCookies.UBT_VID
    /\ cookieJar._bfa[8] = generateCombinedCookie.pageId

\* bit j of the bytes given to encodeByte, counted from the most
\* significant bit of the first byte; 0 behind the last byte
StreamBit(j) ==
  IF j < 8 * Len(enc.fed)
  THEN (enc.fed[(j \div 8) + 1] \div 2^(7 - (j % 8))) % 2
  ELSE 0

\* the value of the 6 stream bits from bit 6k on, most significant first
SixBits(k) ==
  32 * StreamBit(6 * k) + 16 * StreamBit(6 * k + 1)
    + 8 * StreamBit(6 * k + 2) + 4 * StreamBit(6 * k + 3)
    + 2 * StreamBit(6 * k + 4) + StreamBit(6 * k + 5)

\* C31: the packer is unpadded base64url of the bytes given to encodeByte:
\* after N bytes and the final flush the output has ceil(8N/6) characters,
\* character k encodes the stream bits 6k..6k+5, most significant first, the
\* last group filled with zeros on the right; between two calls of
\* encodeByte the number of buffered bits is 8N mod 6, that is 0, 2 or 4
C31_PackerIsBase64Url ==
  cStep \in {"feed", "done"} =>
    LET N == Len(enc.fed)
    IN  /\ cStep = "feed" => /\ enc.c = (8 * N) % 6
                             /\ enc.c \in {0, 2, 4}
                             /\ Len(enc.d) = (8 * N) \div 6
        /\ cStep = "done" => Len(enc.d) = (8 * N + 5) \div 6
        /\ \A k \in 1..Len(enc.d) : enc.d[k] = Alphabet[SixBits(k - 1) + 1]

\* two bytes have been packed into three characters, the last of them
\* holding the 4 bits left over
C31_Witness ==
  /\ cStep = "done"
  /\ enc.fed = <<255, 255>>
  /\ enc.d = <<"_", "_", "8">>

\* encodePayload has returned
Encoded == cStep = "done" /\ returned # <<>>

\* the place in the output behind the last byte of token k
TokenEnd(k) ==
  IF k < Len(enc.tok) THEN enc.tok[k + 1].first - 1 ELSE Len(enc.fed)

RECURSIVE SumOfLengths(_)
SumOfLengths(tokens) ==
  IF tokens = <<>> THEN 0 ELSE Head(tokens).len + SumOfLengths(Tail(tokens))

\* C32: the bytes encodePayload emits are the marker byte 19, once and
\* first, and then tokens that tile the input without gap or overlap: the
\* first token starts at input position 0, each next one where the one
\* before it ends, the last one ends with the input; a literal sub-chunk
\* stands for 1..127 bytes, a match for 3..130, and the lengths add up to
\* the input length
C32_TokensTileInput ==
  Encoded =>
    /\ enc.fed[1] = 19
    /\ Len(enc.tok) = 0 => (Len(enc.i) = 0 /\ Len(enc.fed) = 1)
    /\ Len(enc.tok) > 0 =>
         /\ enc.tok[1].first = 2
         /\ enc.tok[1].pos = 0
         /\ enc.tok[Len(enc.tok)].pos + enc.tok[Len(enc.tok)].len = Len(enc.i)
    /\ \A k \in 1..Len(enc.tok) :
         LET token == enc.tok[k]
         IN  /\ k > 1 => token.pos = enc.tok[k - 1].pos + enc.tok[k - 1].len
             /\ token.kind = "literal" =>
                  /\ token.len \in 1..127
                  /\ TokenEnd(k) = token.first + token.len
                  /\ \A j \in 1..token.len :
                       enc.fed[token.first + j] = enc.i[token.pos + j]
             /\ token.kind = "match" =>
                  /\ token.len \in 3..130
                  /\ TokenEnd(k) > token.first
    /\ SumOfLengths(enc.tok) = Len(enc.i)

\* the long argument is encoded as literal sub-chunks of 127 and 4 bytes, a
\* match of 130 bytes, three literal bytes and a match of 3 bytes
C32_Witness ==
  /\ Encoded
  /\ Len(enc.i) = 267
  /\ Len(enc.tok) = 5
  /\ enc.tok[1].len = 127 /\ enc.tok[2].len = 4
  /\ enc.tok[3].kind = "match" /\ enc.tok[3].len = 130
  /\ enc.tok[4].kind = "literal" /\ enc.tok[4].len = 3
  /\ enc.tok[5].kind = "match" /\ enc.tok[5].pos = 264

\* C33: the first byte of every token tells its kind: the control byte of a
\* literal sub-chunk is (-length) mod 256 and lies in 129..255, the first
\* byte of a match token is length - 3 and lies in 0..127
C33_FirstByteTellsKind ==
  cStep \in {"chunk", "done"} =>
    \A k \in 1..Len(enc.tok) :
      LET token == enc.tok[k]
          byte == enc.fed[token.first]
      IN  /\ token.kind = "literal" =>
               /\ byte = (0 - token.len) % 256
               /\ byte \in 129..255
          /\ token.kind = "match" =>
               /\ byte = token.len - 3
               /\ byte \in 0..127
          /\ (byte >= 128) = (token.kind = "literal")

\* a literal sub-chunk of 127 bytes (control byte 129) and a match of 130
\* bytes (first byte 127) have been emitted
C33_Witness ==
  /\ Encoded
  /\ \E k \in 1..Len(enc.tok) :
       /\ enc.tok[k].kind = "literal"
       /\ enc.fed[enc.tok[k].first] = 129
  /\ \E k \in 1..Len(enc.tok) :
       /\ enc.tok[k].kind = "match"
       /\ enc.fed[enc.tok[k].first] = 127

\* the number of bytes from input position p on that equal the bytes from
\* position a on, counting at most 130, not past a and not past the input
CommonLength(p, a) ==
  Cardinality({k \in 1..getMin(130, getMin(a - p, Len(enc.i) - a)) :
                 \A j \in 1..k : enc.i[p + j] = enc.i[a + j]})

\* the earlier start positions within the window of position a
WindowStarts(a) == (IF a > ChunkSize THEN a - ChunkSize ELSE 0)..(a - 1)

\* C34: where encodePayload has searched for a match, what it found is a
\* longest run of equal bytes (at most 130, its source not past the current
\* position) among the earlier start positions of the window, the most
\* recent of the longest ones, with a distance field that is not negative;
\* it found nothing when no run has 3 bytes, and every match emitted is
\* what a search found
C34_LongestMostRecentMatch ==
  cStep \in {"chunk", "done"} =>
    /\ enc.srch # <<>> =>
         LET found == enc.srch[Len(enc.srch)]
             a == found.pos
             source == a - found.i - found.t
         IN  IF found.t = 0
             THEN \A p \in WindowStarts(a) : CommonLength(p, a) < 3
             ELSE /\ found.t \in 3..130
                  /\ found.i >= 0
                  /\ source \in WindowStarts(a)
                  /\ CommonLength(source, a) = found.t
                  /\ \A p \in WindowStarts(a) :
                       /\ CommonLength(p, a) <= found.t
                       /\ CommonLength(p, a) = found.t => p <= source
    /\ \A k \in 1..Len(enc.tok) :
         enc.tok[k].kind = "match" =>
           \E h \in 1..Len(enc.srch) :
             /\ enc.srch[h].pos = enc.tok[k].pos
             /\ enc.srch[h].t = enc.tok[k].len
             /\ enc.srch[h].i = enc.tok[k].dist

\* at position 6 of four U+20AC the walk met position 3 (3 equal bytes)
\* and then position 0 (6 equal bytes), and kept the longer one
C34_Witness ==
  /\ Encoded
  /\ text = <<8364, 8364, 8364, 8364>>
  /\ \E h \in 1..Len(enc.srch) :
       /\ enc.srch[h].pos = 6
       /\ enc.srch[h].t = 6
       /\ enc.srch[h].i = 0

\* C35: a match token is its length field, one byte, and then its distance
\* field as a little-endian base-128 varint: each byte carries 7 bits of
\* the value, every byte but the last has the bit 0x80 set and the last
\* has it clear, and the bytes decode to the distance, for every distance
\* from 0 to the window size
C35_DistanceIsVarint ==
  (cStep = "done" /\ Len(enc.tok) = 1) =>
    LET token == enc.tok[1]
        n == Len(enc.fed) - 1
        septet(k) == enc.fed[k + 1] % 128
    IN  /\ token.first = 1
        /\ enc.fed[1] = token.len - 3
        /\ n \in 1..3
        /\ \A k \in 1..n : enc.fed[k + 1] \in 0..255
        /\ \A k \in 1..(n - 1) : enc.fed[k + 1] >= 128
        /\ enc.fed[n + 1] < 128
        /\ token.dist =
             septet(1) + (IF n >= 2 THEN 128 * septet(2) ELSE 0)
                       + (IF n >= 3 THEN 16384 * septet(3) ELSE 0)
        /\ n = (IF token.dist < 128 THEN 1 ELSE IF token.dist < 16384 THEN 2
                ELSE 3)

\* the distance 16384 has been emitted behind the length byte as the three
\* bytes 0x80, 0x80, 0x01
C35_Witness ==
  /\ cStep = "done"
  /\ enc.tok = <<[kind |-> "match", pos |-> 0, len |-> 130, dist |-> 16384,
                  first |-> 1]>>
  /\ enc.fed = <<127, 128, 128, 1>>

\* an initial search has built all its payloads
InitialSearchBuilt == bStep = "done" /\ productId = ""

\* C36: in every initial search the transaction id of the main search
\* payload (extension flt_app_session_transactionId) is the transaction id
\* of the session state, the one the route-info payload carries and the
\* result returns among its cookies
C36_OneTransactionId ==
  InitialSearchBuilt =>
    /\ payload.head.extension.flt_app_session_transactionId
         = cookies.transactionId
    /\ routeInfoPayload.Head.TransactionID = cookies.transactionId

\* C37: for every spelling of triptype and with or without a return date
\* the route-info payload and the search payload agree on the trip: as many
\* route-info segments as journey legs, and trip-type code RT exactly when
\* the search payload's tripType is 2
C37_PayloadsAgreeOnTrip ==
  InitialSearchBuilt =>
    /\ Len(routeInfoPayload.searchSegmentList)
         = Len(payload.searchCriteria.journeyInfoTypes)
    /\ (routeInfoPayload.tripType = "RT")
         <=> (payload.searchCriteria.tripType = 2)

\* the step name of a Stage C call
StepName(c) == IF c = "flightSearch" THEN "FlightListSearchSSE"
               ELSE "UBT collect"

\* C38: every outcome recorded for a Stage C call carries the step name of
\* the call that produced it, so that when the main search call fails the
\* failure message reports that call's own error description
C38_OutcomeUnderOwnName ==
  /\ Len(results) > 0 =>
       \A i \in 1..Len(concurrentCalls) :
         results[i].name = StepName(concurrentCalls[i])
  /\ (Done /\ call["flightSearch"] = "fail") =>
       \E i \in 1..Len(res[1].error) :
         res[1].error[i] = ReasonText(err["flightSearch"])

\* C39: in the sort/refine operation the search payload is built for every
\* session state the root GET can produce, a root response without a
\* _combined cookie included: building the payload never raises, and the
\* operation goes on to the payload's sort info
C39_SortPayloadAlwaysBuilt ==
  productId # "" =>
    /\ bStep # "threw"
    /\ bStep \notin {"generateUUID", "buildTokenPayload",
                     "buildFlightSearchPayload"} => payload # <<>>

\* C40: provided every transport call eventually settles, every scrape
\* operation eventually terminates and sends exactly one response, the
\* success result or one failure result, whatever calls succeed or fail; it
\* never sends two responses and never ends without one
C40_ExactlyOneResponse ==
  /\ [](Len(res) <= 1)
  /\ [](Done => Len(res) = 1 /\ res[1].http \in {200, 400, 500})
  /\ <>[](Done /\ Len(res) = 1)

C40_Witness ==
  /\ Done
  /\ handler = "grpc"
  /\ call["createClientId"] = "fail"
  /\ call["saveLogInfo"] = "fail"
  /\ call["getRouteInfo2"] = "fail"
  /\ call["ubtCollect"] = "fail"
  /\ call["risk"] = "fail"
  /\ Len(res) = 1
  /\ res[1].success = "true"

====
